---- MODULE Spec2Model ----
(***************************************************************************)
(* Container validation and creation flows of lxd/container.go.            *)
(*                                                                         *)
(* Names are sequences of segments: the snapshot delimiter "/" separates   *)
(* the segments, so <<"c1">> is container c1 and <<"c1","s1">> is its      *)
(* snapshot c1/s1.  A config or a device is a function from the keys it    *)
(* holds to their string values; Go's m[k] on a missing key is "".         *)
(***************************************************************************)
EXTENDS Integers, Sequences, FiniteSets, TLC

VARIABLES
    host,       \* host facts: sys.OS, the process environment, the file system probes
    catalog,    \* the cluster database's containers table: name -> record
    backups,    \* the cluster database's backups table: set of backup names
    images,     \* image hash -> [remote, associated, accessed]
    flow,       \* the creation function being run ("idle" between calls)
    pc,         \* position in that function
    args,       \* the db.ContainerArgs (or backup args) of the call
    cargs,      \* the args of the running containerCreateInternal call
    ret,        \* where the running sub-function returns to on success
    idx,        \* containerCreateAsCopy: index in csList (0: the parent)
    csList,     \* containerCreateAsCopy: the snapshots created so far
    cfgc,       \* the container containerConfigureInternal runs on
    ourStart,   \* the ourStart local of the running function
    deferStop,  \* containers with a deferred StorageStop registered
    result,     \* "none" while running, "ok", or the error returned
    pre,        \* catalog and backups when the call started
    log,        \* the calls made on the collaborators during this call
    calls,      \* number of calls made so far
    stateDir,   \* whether the source container's state directory exists
    pool,       \* containerCreateFromBackup: the pool chosen for the unpack
    fixBackupFile, \* containerCreateFromBackup: the fixBackupFile local
    vcfg,       \* validator run: the config (or device set) under validation
    vout        \* validator run: the verdict

vars == <<host, catalog, backups, images, flow, pc, args, cargs, ret, idx, csList,
          cfgc, ourStart, deferStop, result, pre, log, calls, stateDir, pool,
          fixBackupFile, vcfg, vout>>

(***************************************************************************)
(* Bounds                                                                  *)
(***************************************************************************)
MaxSnapshots == 2   \* snapshots the source container may have
MaxCalls == 2       \* creation calls made in a row
MaxKeys == 3        \* keys of a config handed to the validator run
MaxProcs == 2       \* creation calls running at the same time

(***************************************************************************)
(* Helpers                                                                 *)
(***************************************************************************)
\* Go map lookup: the zero value for a missing key
Get(m, k) == IF k \in DOMAIN m THEN m[k] ELSE ""

Has(m, k) == k \in DOMAIN m

EmptyMap == [k \in {} |-> ""]

Put(m, k, v) == [x \in DOMAIN m \cup {k} |-> IF x = k THEN v ELSE m[x]]

\* shared.IsTrue: the value, lower-cased, is one of true, 1, yes, on
IsTrue(v) == v \in {"true", "1", "yes", "on"}

\* shared.IsBool: empty, or a boolean word
IsBool(v) == v \in {"", "true", "false", "1", "0", "yes", "no", "on", "off"}

\* containerGetParentAndSnapshotName: strings.SplitN(name, "/", 2)
containerGetParentAndSnapshotName(name) ==
    IF Len(name) = 1
    THEN <<name, << >>, FALSE>>
    ELSE <<SubSeq(name, 1, 1), SubSeq(name, 2, Len(name)), TRUE>>

IsSnapshot(name) == Len(name) > 1

\* shared.ValidHostname on one segment
ValidHostnames == {"c1", "c2", "c3", "s1", "s2", "s3", "s4"}

containerValidName(name) ==
    /\ Len(name) = 1                 \* no snapshot delimiter in it
    /\ name[1] \in ValidHostnames

(***************************************************************************)
(* Config validation                                                       *)
(***************************************************************************)
\* A nil map, as opposed to an empty one
NilMap == [k \in {"<nil>"} |-> ""]

\* Keys with the "volatile." and the "image." prefix
VolatileKeys == {"volatile.base_image", "volatile.apply_quota"}
ImageKeys == {"image.os"}

\* shared.ConfigKeyChecker: the keys with a boolean checker, and those taking any value
BoolConfigKeys == {"security.privileged", "security.syscalls.blacklist_default",
                   "security.syscalls.blacklist_compat"}
AnyConfigKeys == {"raw.seccomp", "raw.idmap", "raw.lxc", "security.syscalls.whitelist",
                  "security.syscalls.blacklist"} \cup VolatileKeys \cup ImageKeys

\* lxcValidConfig: the raw.lxc values that parse
ValidRawLxc == {"", "lxc.aa_profile=unconfined"}
lxcValidConfig(value) == value \in ValidRawLxc

\* parseRawIdmap: the entries of a raw.idmap value (one per line), err set
\* when a line does not parse
parseRawIdmap(value) ==
    CASE value = "both 0 1000"    ->
             [err |-> FALSE, maps |-> <<[Hostid |-> 0, Nsid |-> 1000]>>]
      [] value = "both 1000 2000" ->
             [err |-> FALSE, maps |-> <<[Hostid |-> 1000, Nsid |-> 2000]>>]
      [] value = "uid 1000 0"     ->
             [err |-> FALSE, maps |-> <<[Hostid |-> 1000, Nsid |-> 0]>>]
      [] value = "uid 1000 5; gid 0 5" ->
             [err |-> FALSE, maps |-> <<[Hostid |-> 1000, Nsid |-> 5],
                                        [Hostid |-> 0, Nsid |-> 5]>>]
      [] value = ""               -> [err |-> FALSE, maps |-> << >>]
      [] OTHER                    -> [err |-> TRUE, maps |-> << >>]

\* The architectures security.syscalls.blacklist_compat is supported on
CompatArchitectures == {"x86_64", "aarch64", "ppc64"}

containerValidConfigKey(os, key, value) ==
    /\ key \in BoolConfigKeys \cup AnyConfigKeys
    /\ key \in BoolConfigKeys => IsBool(value)
    /\ key = "raw.lxc" => lxcValidConfig(value)
    /\ key = "security.syscalls.blacklist_compat" =>
           \E i \in DOMAIN os.Architectures : os.Architectures[i] \in CompatArchitectures

allowedUnprivilegedOnlyMap(rawIdmap) ==
    LET rawMaps == parseRawIdmap(rawIdmap) IN
    /\ ~rawMaps.err
    /\ \A i \in DOMAIN rawMaps.maps : rawMaps.maps[i].Hostid # 0

\* An exclusion of raw.seccomp and the whitelist alone
RawSeccompVersusWhitelist(config) ==
    ~(Has(config, "raw.seccomp") /\ Has(config, "security.syscalls.whitelist"))

\* Lines 287-295: the raw.seccomp exclusion of containerValidConfig
RawSeccompExclusive(config) ==
    LET rawSeccomp == Has(config, "raw.seccomp")
        whitelist == Has(config, "security.syscalls.whitelist")
        blacklist == Has(config, "security.syscalls.blacklist")
        blacklistDefault == IsTrue(Get(config, "security.syscalls.blacklist_default"))
        blacklistCompat == IsTrue(Get(config, "security.syscalls.blacklist_compat"))
    IN  ~(rawSeccomp /\ (whitelist \/ blacklist \/ blacklistDefault \/ blacklistCompat))

\* The whitelist exclusion of containerValidConfig
WhitelistExclusive(config) ==
    LET whitelist == Has(config, "security.syscalls.whitelist")
        blacklist == Has(config, "security.syscalls.blacklist")
        blacklistDefault == IsTrue(Get(config, "security.syscalls.blacklist_default"))
        blacklistCompat == IsTrue(Get(config, "security.syscalls.blacklist_compat"))
    IN  ~(whitelist /\ (blacklist \/ blacklistDefault \/ blacklistCompat))

\* A containerValidConfig that does not look at LXD_UNPRIVILEGED_ONLY
UnprivilegedOnlyOff(unprivOnly, config) == TRUE

\* Lines 305-317: the LXD_UNPRIVILEGED_ONLY policy of containerValidConfig
UnprivilegedOnlyOk(unprivOnly, config) ==
    IsTrue(unprivOnly) =>
        /\ Get(config, "raw.idmap") # "" => allowedUnprivilegedOnlyMap(Get(config, "raw.idmap"))
        /\ ~IsTrue(Get(config, "security.privileged"))

\* TRUE when containerValidConfig returns nil.  unprivOnly is the value of
\* the LXD_UNPRIVILEGED_ONLY environment variable.
containerValidConfig(sysOS, unprivOnly, config, profile, expanded) ==
    \/ config = NilMap
    \/ /\ config # NilMap
       /\ \A k \in DOMAIN config :
             /\ ~(profile /\ k \in VolatileKeys)
             /\ ~(profile /\ k \in ImageKeys)
             /\ containerValidConfigKey(sysOS, k, config[k])
       /\ RawSeccompExclusive(config)
       /\ WhitelistExclusive(config)
       /\ ~(/\ expanded
            /\ (Get(config, "security.privileged") = ""
                  \/ ~IsTrue(Get(config, "security.privileged")))
            /\ sysOS.IdmapSet = "nil")
       /\ UnprivilegedOnlyOk(unprivOnly, config)

(***************************************************************************)
(* Device validation                                                       *)
(***************************************************************************)
DeviceTypes == {"disk", "gpu", "infiniband", "nic", "none", "proxy",
                "unix-block", "unix-char", "usb"}

\* A key table that lets every key through
AnyDeviceConfigKey(t, k) == TRUE

\* Lines 88-250: the keys each device type allows
containerValidDeviceConfigKey(t, k) ==
    \/ k = "type"
    \/ /\ k # "type"
       /\ CASE t \in {"unix-char", "unix-block"} ->
                 k \in {"gid", "major", "minor", "mode", "source", "path", "required", "uid"}
            [] t = "nic" ->
                 k \in {"limits.max", "limits.ingress", "limits.egress", "host_name",
                        "hwaddr", "mtu", "name", "nictype", "parent", "vlan",
                        "ipv4.address", "ipv6.address", "security.mac_filtering",
                        "maas.subnet.ipv4", "maas.subnet.ipv6"}
            [] t = "disk" ->
                 k \in {"limits.max", "limits.read", "limits.write", "optional", "path",
                        "readonly", "size", "source", "recursive", "pool", "propagation"}
            [] t = "usb" ->
                 k \in {"vendorid", "productid", "mode", "gid", "uid", "required"}
            [] t = "gpu" ->
                 k \in {"vendorid", "productid", "id", "pci", "mode", "gid", "uid"}
            [] t = "infiniband" ->
                 k \in {"hwaddr", "mtu", "name", "nictype", "parent"}
            [] t = "proxy" ->
                 k \in {"bind", "connect", "gid", "listen", "mode", "uid"}
            [] OTHER -> FALSE

\* shared.IsRootDiskDevice
IsRootDiskDevice(d) ==
    Get(d, "type") = "disk" /\ Get(d, "path") = "/" /\ Get(d, "source") = ""

\* shared.GetRootDiskDevice: the name of the one root disk device, "" (an
\* error) when there is none or more than one
GetRootDiskDeviceKey(devices) ==
    LET roots == {n \in DOMAIN devices : IsRootDiskDevice(devices[n])} IN
    IF Cardinality(roots) = 1 THEN CHOOSE n \in roots : TRUE ELSE ""

\* filepath.IsAbs
IsAbs(path) == path \in {"/", "/data", "/mnt/x", "/dev/null", "/dev/sda", "/tmp"}

\* The listen addresses with the "unix:" prefix, and those with "unix:@"
UnixListen == {"unix:/tmp/s", "unix:@abstract"}
AbstractUnixListen == {"unix:@abstract"}

PropagationModes == {"private", "shared", "slave", "unbindable", "rprivate",
                     "rshared", "rslave", "runbindable"}

ValidNic(m) ==
    /\ Get(m, "nictype") \in {"bridged", "macvlan", "p2p", "physical", "sriov"}
    /\ Get(m, "nictype") \in {"bridged", "macvlan", "physical", "sriov"} =>
           Get(m, "parent") # ""

ValidInfiniband(m) ==
    /\ Get(m, "nictype") \in {"physical", "sriov"}
    /\ Get(m, "parent") # ""

\* The checks of a disk device without those on its source
ValidDiskAnySource(h, m) ==
    /\ Get(m, "path") # ""
    /\ ~(Get(m, "size") # "" /\ Get(m, "path") # "/")
    /\ Get(m, "pool") # "" => Get(m, "pool") \in h.pools

\* Lines 369-415: the checks on one disk device; h holds the pools of the
\* database and the directories of the host
ValidDisk(h, m) ==
    /\ Get(m, "path") # ""
    /\ ~(Get(m, "source") = "" /\ Get(m, "path") # "/")
    /\ ~(Get(m, "path") = "/" /\ Get(m, "source") # "")
    /\ ~(Get(m, "size") # "" /\ Get(m, "path") # "/")
    /\ ~((Get(m, "path") = "/" \/ Get(m, "source") \notin h.dirs)
           /\ Get(m, "recursive") # "")
    /\ Get(m, "pool") # "" =>
           /\ ~IsAbs(Get(m, "source"))
           /\ Get(m, "pool") \in h.pools
    /\ Get(m, "propagation") # "" =>
           /\ h.liblxc3
           /\ Get(m, "propagation") \in PropagationModes

\* h.nodes maps the device nodes of the host to "c" or "b"
ValidUnix(h, m) ==
    /\ ~(Get(m, "source") = "" /\ Get(m, "path") = "")
    /\ ((Get(m, "required") = "" \/ IsTrue(Get(m, "required")))
          /\ (Get(m, "major") = "" \/ Get(m, "minor") = "")) =>
           LET srcPath == IF Has(m, "source") THEN m["source"] ELSE Get(m, "path") IN
           /\ srcPath \in DOMAIN h.nodes
           /\ ~(m["type"] = "unix-char" /\ h.nodes[srcPath] # "c")
           /\ ~(m["type"] = "unix-block" /\ h.nodes[srcPath] # "b")

ValidUsb(m) == Get(m, "vendorid") # ""

ValidGpu(h, m) ==
    /\ ~(Get(m, "pci") # "" /\ Get(m, "pci") \notin h.pci)
    /\ ~(Get(m, "pci") # ""
           /\ (Get(m, "id") # "" \/ Get(m, "productid") # "" \/ Get(m, "vendorid") # ""))
    /\ ~(Get(m, "id") # ""
           /\ (Get(m, "pci") # "" \/ Get(m, "productid") # "" \/ Get(m, "vendorid") # ""))

ValidProxy(m) ==
    /\ Get(m, "listen") # ""
    /\ Get(m, "connect") # ""
    /\ ~((Get(m, "listen") \notin UnixListen \/ Get(m, "listen") \in AbstractUnixListen)
           /\ (Get(m, "uid") # "" \/ Get(m, "gid") # "" \/ Get(m, "mode") # ""))

\* The per-device part of the loop of containerValidDevices
ValidDevice(h, m) ==
    /\ Get(m, "type") # ""
    /\ Get(m, "type") \in DeviceTypes
    /\ \A k \in DOMAIN m : containerValidDeviceConfigKey(m["type"], k)
    /\ CASE m["type"] = "nic" -> ValidNic(m)
         [] m["type"] = "infiniband" -> ValidInfiniband(m)
         [] m["type"] = "disk" -> ValidDisk(h, m)
         [] m["type"] \in {"unix-char", "unix-block"} -> ValidUnix(h, m)
         [] m["type"] = "usb" -> ValidUsb(m)
         [] m["type"] = "gpu" -> ValidGpu(h, m)
         [] m["type"] = "proxy" -> ValidProxy(m)
         [] m["type"] = "none" -> TRUE
         [] OTHER -> FALSE

\* TRUE when containerValidDevices returns nil
containerValidDevices(h, devices, profile, expanded) ==
    \/ devices = NilMap
    \/ /\ devices # NilMap
       /\ \A n \in DOMAIN devices : ValidDevice(h, devices[n])
       /\ ~expanded =>
              \A n1, n2 \in DOMAIN devices :
                  (/\ n1 # n2
                   /\ Get(devices[n1], "type") = "disk"
                   /\ Get(devices[n2], "type") = "disk")
                  => Get(devices[n1], "path") # Get(devices[n2], "path")
       /\ expanded => GetRootDiskDeviceKey(devices) # ""

(***************************************************************************)
(* The host, the requests and the collaborators                            *)
(***************************************************************************)
\* s.OS and the rest of the host the validators consult
DefaultHost ==
    [os |-> [Architectures |-> <<"x86_64", "i686">>, IdmapSet |-> "set"],
     unprivOnly |-> "",
     pools |-> {"p0", "p1"},
     dirs |-> {"/mnt/x"},
     nodes |-> [n \in {"/dev/null"} |-> "c"],
     pci |-> {"0000:00:02.0"},
     liblxc3 |-> TRUE,
     profiles |-> {"default"},
     criu |-> TRUE]

\* osarch.ArchitectureName knows these
KnownArchitectures == {"i686", "x86_64", "armv7l", "aarch64", "ppc", "ppc64", "ppc64le", "s390x"}

NilList == <<"<nil>">>

RootDevice(p, size) ==
    IF size = ""
    THEN [type |-> "disk", path |-> "/", pool |-> p]
    ELSE [type |-> "disk", path |-> "/", pool |-> p, size |-> size]

DevRoot == [n \in {"root"} |-> RootDevice("p1", "")]
DevRootSized == [n \in {"root"} |-> RootDevice("p1", "10GB")]
DevRootBadSize == [n \in {"root"} |-> RootDevice("p1", "bogus")]
DevNoRoot == [n \in {"data"} |-> [type |-> "disk", path |-> "/data", source |-> "/mnt/x"]]
DevBadNic == [n \in {"eth0"} |-> [type |-> "nic"]]
DevBadKey == [n \in {"root"} |-> [type |-> "disk", path |-> "/", bogus |-> "1"]]

CfgPrivileged == [k \in {"security.privileged"} |-> "true"]
CfgBadSeccomp == [k \in {"raw.seccomp", "security.syscalls.whitelist"} |-> "x"]
CfgUnknownKey == [k \in {"bogus.key"} |-> "x"]

\* The request every sample request is a variation of
BaseArgs ==
    [Name |-> <<"c2">>, Ctype |-> "regular", Config |-> NilMap, Devices |-> DevRoot,
     Architecture |-> "unknown", Profiles |-> NilList, BaseImage |-> "", Stateful |-> FALSE]

\* Requests for a regular container
ContainerRequests ==
    {BaseArgs}
    \cup {[BaseArgs EXCEPT !.Name = n] : n \in {<<"c1">>, <<"bad host">>, <<"c2", "s1">>}}
    \cup {[BaseArgs EXCEPT !.Name = <<"c1">>, !.Config = CfgBadSeccomp]}
    \cup {[BaseArgs EXCEPT !.Config = c] : c \in {CfgPrivileged, CfgBadSeccomp, CfgUnknownKey}}
    \cup {[BaseArgs EXCEPT !.Devices = d] :
             d \in {NilMap, DevRootSized, DevRootBadSize, DevNoRoot, DevBadNic, DevBadKey}}
    \cup {[BaseArgs EXCEPT !.Architecture = a] : a \in {"x86_64", "s390x", "vax"}}
    \cup {[BaseArgs EXCEPT !.Profiles = q] :
             q \in {<<"default">>, <<"nope">>, <<"default", "default">>}}

\* The devices of the default profile
ProfileDevices == [n \in {"root"} |-> RootDevice("p1", "")]

\* c.ExpandedDevices(): the profile's devices overridden by the local ones
ExpandedDevices(local) ==
    LET loc == IF local = NilMap THEN EmptyMap ELSE local IN
    [n \in DOMAIN ProfileDevices \cup DOMAIN loc |->
        IF n \in DOMAIN loc THEN loc[n] ELSE ProfileDevices[n]]

\* shared.ParseByteSizeString fails on these
UnparsableSizes == {"bogus"}

\* A database that removes, with a record, the container it belongs to and
\* the other snapshots of that container
ContainerRemoveCascade(cat, name, ok) ==
    IF ok /\ name \in DOMAIN cat
    THEN [n \in {m \in DOMAIN cat : m[1] # name[1]} |-> cat[n]]
    ELSE cat

\* db ContainerRemove; ok is whether the database carried it out
ContainerRemove(cat, name, ok) ==
    IF ok /\ name \in DOMAIN cat
    THEN [n \in DOMAIN cat \ {name} |-> cat[n]]
    ELSE cat

\* db ContainerCreate: the table with the record of a inserted
ContainerInsert(cat, a) ==
    [n \in DOMAIN cat \cup {a.Name} |->
        IF n = a.Name THEN [ctype |-> a.Ctype, devices |-> a.Devices] ELSE cat[n]]

\* containerLXC.Delete: removes the record of c; ok is whether it succeeded
Delete(cat, name, ok) ==
    IF ok /\ name \in DOMAIN cat
    THEN [n \in DOMAIN cat \ {name} |-> cat[n]]
    ELSE cat

\* A call made on a collaborator: what was called, on which container (or
\* backup, image, pool), and whether it succeeded
Ev(op, on, ok) == [op |-> op, on |-> on, ok |-> ok]

\* A call that answers a question: is holds the answer
EvIs(op, on, v) == [op |-> op, on |-> on, ok |-> TRUE, is |-> v]

\* c.StorageStart() returning "started" (true, nil), "already" (false, nil) or "error"
EvStart(on, r) ==
    [op |-> "StorageStart", on |-> on, ok |-> (r # "error"), started |-> (r = "started")]

\* The snapshot names of the source container c1
SnapSeg == <<"s1", "s2", "s3", "s4">>
SourceName == <<"c1">>
SourceSnapshots(cat) == {n \in DOMAIN cat : Len(n) = 2 /\ n[1] = "c1"}

\* snap.LocalDevices() of the i-th of the n snapshots of the source.  A lone
\* snapshot has devices but no root disk device; of several, the last has no
\* device map, the one before it a root disk device on another pool, the one
\* before that an empty device map
SnapLocalDevices(n, i) ==
    CASE n = 1 -> DevNoRoot
      [] n - i = 0 -> NilMap
      [] n - i = 1 -> [d \in {"root"} |-> RootDevice("p0", "")]
      [] n - i = 2 -> EmptyMap
      [] OTHER -> DevNoRoot

InitCatalog(n) ==
    [name \in {SourceName} \cup {<<"c1", SnapSeg[i]>> : i \in 1..n} |->
        IF Len(name) = 1
        THEN [ctype |-> "regular", devices |-> DevRoot]
        ELSE [ctype |-> "snapshot",
              devices |-> SnapLocalDevices(n, CHOOSE i \in 1..n : SnapSeg[i] = name[2])]]

(***************************************************************************)
(* Initial state                                                           *)
(***************************************************************************)
NoArgs == [Name |-> << >>]

Init ==
    /\ host = DefaultHost
    /\ \E n \in 0..MaxSnapshots : catalog = InitCatalog(n)
    /\ backups = {}
    /\ images \in [remote : BOOLEAN, associated : {FALSE}, accessed : {FALSE}]
    /\ flow = "idle"
    /\ pc = "idle"
    /\ args = NoArgs
    /\ cargs = NoArgs
    /\ ret = "none"
    /\ idx = 0
    /\ csList = << >>
    /\ cfgc = << >>
    /\ ourStart = FALSE
    /\ deferStop = {}
    /\ result = "none"
    /\ pre = [catalog |-> catalog, backups |-> backups, images |-> images, stateDir |-> FALSE]
    /\ log = << >>
    /\ calls = 0
    /\ stateDir = FALSE
    /\ pool = ""
    /\ fixBackupFile = FALSE
    /\ vcfg = EmptyMap
    /\ vout = "none"

\* What the steps of the creation functions other than containerCreateAsSnapshot
\* and containerCreateFromBackup leave alone
other == <<stateDir, pool, fixBackupFile, vcfg, vout>>

\* What every call sets when it starts
Begin(f, a) ==
    /\ flow = "idle"
    /\ calls < MaxCalls
    /\ calls' = calls + 1
    /\ flow' = f
    /\ args' = a
    /\ result' = "none"
    /\ pre' = [catalog |-> catalog, backups |-> backups, images |-> images, stateDir |-> stateDir]
    /\ log' = << >>
    /\ idx' = 0
    /\ csList' = << >>
    /\ ourStart' = FALSE
    /\ deferStop' = {}
    /\ cfgc' = << >>

\* The function returns err (or "ok")
Finish(err) ==
    /\ pc' = "done"
    /\ result' = err

\* The caller has the result and may make a new call; the locals of the
\* finished call are gone
Return ==
    /\ pc = "done"
    /\ pc' = "idle"
    /\ flow' = "idle"
    /\ args' = NoArgs
    /\ cargs' = NoArgs
    /\ ret' = "none"
    /\ idx' = 0
    /\ csList' = << >>
    /\ cfgc' = << >>
    /\ ourStart' = FALSE
    /\ deferStop' = {}
    /\ result' = "none"
    /\ pre' = [catalog |-> catalog, backups |-> backups, images |-> images, stateDir |-> stateDir]
    /\ log' = << >>
    /\ pool' = ""
    /\ fixBackupFile' = FALSE
    /\ UNCHANGED <<host, catalog, backups, images, calls, stateDir, vcfg, vout>>

(***************************************************************************)
(* containerCreateInternal                                                 *)
(***************************************************************************)
\* The caller runs containerCreateInternal on a and continues at r when it
\* succeeds; when it fails the caller returns its error at once
CreateInternal(a, r) ==
    /\ cargs' = a
    /\ ret' = r
    /\ pc' = "ci_validate"

\* The default values set at the top of containerCreateInternal
WithDefaults(a) ==
    [a EXCEPT
        !.Profiles = IF a.Profiles = NilList THEN <<"default">> ELSE a.Profiles,
        !.Config = LET c == IF a.Config = NilMap THEN EmptyMap ELSE a.Config IN
                   IF a.BaseImage # "" THEN Put(c, "volatile.base_image", a.BaseImage) ELSE c,
        !.Devices = IF a.Devices = NilMap THEN EmptyMap ELSE a.Devices,
        !.Architecture = IF a.Architecture = "unknown" THEN host.os.Architectures[1]
                         ELSE a.Architecture]

ValidProfiles(list, profiles) ==
    /\ \A i \in DOMAIN list : list[i] \in profiles
    /\ \A i, j \in DOMAIN list : i # j => list[i] # list[j]

\* The error of the validation part of containerCreateInternal, "" when the
\* request passes; profilesOk is whether the database listed the profiles
ValidationError(a, profilesOk) ==
    CASE a.Ctype = "regular" /\ ~containerValidName(a.Name) -> "invalid name"
      [] OTHER ->
    CASE ~containerValidConfig(host.os, host.unprivOnly, a.Config, FALSE, FALSE) -> "invalid config"
      [] OTHER ->
    CASE ~containerValidDevices(host, a.Devices, FALSE, FALSE) -> "invalid devices"
      [] OTHER ->
    CASE a.Architecture \notin KnownArchitectures -> "unknown architecture"
      [] OTHER ->
    CASE \A i \in DOMAIN host.os.Architectures : host.os.Architectures[i] # a.Architecture
             -> "unsupported architecture"
      [] OTHER ->
    CASE ~profilesOk -> "profiles: database error"
      [] OTHER ->
    CASE ~ValidProfiles(a.Profiles, host.profiles) -> "invalid profiles"
      [] OTHER -> ""

ValidationErrors == {"invalid name", "invalid config", "invalid devices",
                     "unknown architecture", "unsupported architecture", "invalid profiles"}

\* containerCreateInternal with the record inserted ahead of the validation
CI_ValidateLate ==
    /\ pc = "ci_validate"
    /\ \E profilesOk \in BOOLEAN :
         LET a == WithDefaults(cargs)
             e == ValidationError(a, profilesOk)
         IN  /\ cargs' = a
             /\ IF e # "" THEN Finish(e) ELSE pc' = "ci_insert" /\ UNCHANGED result
             /\ catalog' = IF a.Name \in DOMAIN catalog THEN catalog
                           ELSE ContainerInsert(catalog, a)
    /\ UNCHANGED <<host, backups, images, flow, args, ret, idx, csList, cfgc,
                   ourStart, deferStop, pre, log, calls, other>>

\* Lines 961-1029: defaults and validation
CI_Validate ==
    /\ pc = "ci_validate"
    /\ \E profilesOk \in BOOLEAN :
         LET a == WithDefaults(cargs)
             e == ValidationError(a, profilesOk)
         IN  /\ cargs' = a
             /\ IF e # "" THEN Finish(e) ELSE pc' = "ci_insert" /\ UNCHANGED result
    /\ UNCHANGED <<host, catalog, backups, images, flow, args, ret, idx, csList, cfgc,
                   ourStart, deferStop, pre, log, calls, other>>

\* containerCreateInternal on a database that replaces a record of the same name
CI_InsertOver ==
    /\ pc = "ci_insert"
    /\ \E ok \in BOOLEAN :
         /\ log' = Append(log, Ev("ContainerCreate", cargs.Name, ok))
         /\ IF ok
            THEN /\ catalog' = [n \in DOMAIN catalog \cup {cargs.Name} |->
                                  IF n = cargs.Name THEN ContainerInsert(EmptyMap, cargs)[n]
                                  ELSE catalog[n]]
                 /\ pc' = "ci_get"
                 /\ UNCHANGED result
            ELSE /\ Finish("ContainerCreate: database error")
                 /\ UNCHANGED catalog
    /\ UNCHANGED <<host, backups, images, flow, args, cargs, ret, idx, csList, cfgc,
                   ourStart, deferStop, pre, calls, other>>

\* Lines 1031-1042: the record is inserted, unless the name is taken
CI_Insert ==
    /\ pc = "ci_insert"
    /\ IF cargs.Name \in DOMAIN catalog
       THEN /\ log' = Append(log, Ev("ContainerCreate", cargs.Name, FALSE))
            /\ Finish("already exists")
            /\ UNCHANGED catalog
       ELSE \E ok \in BOOLEAN :
            /\ log' = Append(log, Ev("ContainerCreate", cargs.Name, ok))
            /\ IF ok
               THEN /\ catalog' = ContainerInsert(catalog, cargs)
                    /\ pc' = "ci_get"
                    /\ UNCHANGED result
               ELSE /\ Finish("ContainerCreate: database error")
                    /\ UNCHANGED catalog
    /\ UNCHANGED <<host, backups, images, flow, args, cargs, ret, idx, csList, cfgc,
                   ourStart, deferStop, pre, calls, other>>

\* Lines 1049-1056: the timestamps are read back
CI_Get ==
    /\ pc = "ci_get"
    /\ \E ok \in BOOLEAN, undo \in BOOLEAN :
         IF ok
         THEN /\ undo
              /\ pc' = "ci_lxc"
              /\ UNCHANGED <<catalog, result, log>>
         ELSE /\ catalog' = ContainerRemove(catalog, cargs.Name, undo)
              /\ log' = Append(log, Ev("ContainerRemove", cargs.Name, undo))
              /\ Finish("ContainerGet: database error")
    /\ UNCHANGED <<host, backups, images, flow, args, cargs, ret, idx, csList, cfgc,
                   ourStart, deferStop, pre, calls, other>>

\* Lines 1058-1065: containerLXCCreate
CI_LXCCreate ==
    /\ pc = "ci_lxc"
    /\ \E ok \in BOOLEAN, undo \in BOOLEAN :
         IF ok
         THEN /\ undo
              /\ pc' = ret
              /\ UNCHANGED <<catalog, result, log>>
         ELSE /\ catalog' = ContainerRemove(catalog, cargs.Name, undo)
              /\ log' = Append(log, Ev("ContainerRemove", cargs.Name, undo))
              /\ Finish("containerLXCCreate failed")
    /\ UNCHANGED <<host, backups, images, flow, args, cargs, ret, idx, csList, cfgc,
                   ourStart, deferStop, pre, calls, other>>

(***************************************************************************)
(* containerConfigureInternal                                              *)
(***************************************************************************)
\* The expanded root disk device of the container configure runs on
RootDiskDevice(cat, name) ==
    LET devs == ExpandedDevices(cat[name].devices) IN devs[GetRootDiskDeviceKey(devs)]

\* The caller runs containerConfigureInternal on c and continues at r
Configure(c, r) ==
    /\ cfgc' = c
    /\ ret' = r
    /\ pc' = "cfg_root"
    /\ ourStart' = FALSE

\* containerConfigureInternal returns err to its caller
ConfigureFails(err) ==
    /\ pc' = "cfg_failed"
    /\ result' = err

\* Lines 1069-1073: the root device is looked up
Cfg_Root ==
    /\ pc = "cfg_root"
    /\ IF cfgc \in DOMAIN catalog
          /\ GetRootDiskDeviceKey(ExpandedDevices(catalog[cfgc].devices)) # ""
       THEN pc' = "cfg_start" /\ UNCHANGED result
       ELSE ConfigureFails("no root disk device")
    /\ UNCHANGED <<host, catalog, backups, images, flow, args, cargs, ret, idx, csList,
                   cfgc, ourStart, deferStop, pre, log, calls, other>>

\* Lines 1075-1078: c.StorageStart()
Cfg_Start ==
    /\ pc = "cfg_start"
    /\ \E r \in {"started", "already", "error"} :
         /\ log' = Append(log, EvStart(cfgc, r))
         /\ IF r = "error"
            THEN ConfigureFails("StorageStart failed") /\ UNCHANGED ourStart
            ELSE pc' = "cfg_quota" /\ ourStart' = (r = "started") /\ UNCHANGED result
    /\ UNCHANGED <<host, catalog, backups, images, flow, args, cargs, ret, idx, csList,
                   cfgc, deferStop, pre, calls, other>>

\* A containerConfigureInternal that sets the quota at once whatever the
\* storage and the state of the container
Cfg_QuotaAtOnce ==
    /\ pc = "cfg_quota"
    /\ LET size == Get(RootDiskDevice(catalog, cfgc), "size") IN
       IF size = ""
       THEN pc' = "cfg_backup" /\ UNCHANGED <<result, log>>
       ELSE \E storageTypeName \in {"lvm", "dir"}, running \in BOOLEAN, ok \in BOOLEAN :
            LET asked == <<EvIs("GetStorageTypeName", cfgc, storageTypeName)>>
                         \o (IF storageTypeName = "lvm"
                             THEN <<EvIs("IsRunning", cfgc, running)>> ELSE << >>)
            IN  /\ storageTypeName # "lvm" => ~running
                /\ IF FALSE
                   THEN /\ log' = log \o asked \o <<Ev("ConfigKeySet", cfgc, ok)>>
                        /\ IF ok THEN pc' = "cfg_backup" /\ UNCHANGED result
                                 ELSE ConfigureFails("ConfigKeySet failed")
                   ELSE IF size \in UnparsableSizes
                        THEN /\ ok
                             /\ log' = log \o asked
                             /\ ConfigureFails("ParseByteSizeString failed")
                        ELSE /\ log' = log \o asked \o <<Ev("StorageEntitySetQuota", cfgc, ok)>>
                             /\ IF ok THEN pc' = "cfg_backup" /\ UNCHANGED result
                                      ELSE ConfigureFails("StorageEntitySetQuota failed")
    /\ UNCHANGED <<host, catalog, backups, images, flow, args, cargs, ret, idx, csList,
                   cfgc, ourStart, deferStop, pre, calls, other>>

\* Lines 1080-1100: the quota of the root device: on lvm with the container
\* running the size is left in volatile.apply_quota, otherwise it is parsed
\* and set; c.IsRunning() is asked only on lvm
Cfg_Quota ==
    /\ pc = "cfg_quota"
    /\ LET size == Get(RootDiskDevice(catalog, cfgc), "size") IN
       IF size = ""
       THEN pc' = "cfg_backup" /\ UNCHANGED <<result, log>>
       ELSE \E storageTypeName \in {"lvm", "dir"}, running \in BOOLEAN, ok \in BOOLEAN :
            LET asked == <<EvIs("GetStorageTypeName", cfgc, storageTypeName)>>
                         \o (IF storageTypeName = "lvm"
                             THEN <<EvIs("IsRunning", cfgc, running)>> ELSE << >>)
            IN  /\ storageTypeName # "lvm" => ~running
                /\ IF storageTypeName = "lvm" /\ running
                   THEN /\ log' = log \o asked \o <<Ev("ConfigKeySet", cfgc, ok)>>
                        /\ IF ok THEN pc' = "cfg_backup" /\ UNCHANGED result
                                 ELSE ConfigureFails("ConfigKeySet failed")
                   ELSE IF size \in UnparsableSizes
                        THEN /\ ok
                             /\ log' = log \o asked
                             /\ ConfigureFails("ParseByteSizeString failed")
                        ELSE /\ log' = log \o asked \o <<Ev("StorageEntitySetQuota", cfgc, ok)>>
                             /\ IF ok THEN pc' = "cfg_backup" /\ UNCHANGED result
                                      ELSE ConfigureFails("StorageEntitySetQuota failed")
    /\ UNCHANGED <<host, catalog, backups, images, flow, args, cargs, ret, idx, csList,
                   cfgc, ourStart, deferStop, pre, calls, other>>

\* containerConfigureInternal with the error of writeBackupFile dropped
ConfigureReturnsAlways(ok) ==
    IF ret = "done" THEN Finish("ok")
    ELSE pc' = ret /\ UNCHANGED result

\* Lines 1106-1111: the error of writeBackupFile is returned; on success
\* the caller goes on (or returns the container, when nothing is left to do)
ConfigureReturns(ok) ==
    IF ~ok THEN ConfigureFails("writeBackupFile failed")
    ELSE IF ret = "done" THEN Finish("ok")
    ELSE pc' = ret /\ UNCHANGED result

\* A containerConfigureInternal that writes the backup file only when it
\* set no quota
Cfg_BackupUnlessQuota ==
    /\ pc = "cfg_backup"
    /\ \E ok \in BOOLEAN :
         LET quota == \E i \in DOMAIN log : /\ log[i].on = cfgc
                                            /\ log[i].op \in {"ConfigKeySet", "StorageEntitySetQuota"}
             written == IF quota THEN log ELSE Append(log, Ev("writeBackupFile", cfgc, ok))
             stopped == IF ourStart THEN Append(written, Ev("StorageStop", cfgc, TRUE))
                        ELSE written
         IN  /\ quota => ok
             /\ log' = stopped
             /\ ConfigureReturns(ok)
    /\ UNCHANGED <<host, catalog, backups, images, flow, args, cargs, ret, idx, csList,
                   cfgc, ourStart, deferStop, pre, calls, other>>

\* Lines 1102-1111: the deferred StorageStop is registered, the backup file
\* is written and the function returns, which runs the deferred call
Cfg_Backup ==
    /\ pc = "cfg_backup"
    /\ \E ok \in BOOLEAN :
         LET written == Append(log, Ev("writeBackupFile", cfgc, ok))
             stopped == IF ourStart THEN Append(written, Ev("StorageStop", cfgc, TRUE))
                        ELSE written
         IN  /\ log' = stopped
             /\ ConfigureReturns(ok)
    /\ UNCHANGED <<host, catalog, backups, images, flow, args, cargs, ret, idx, csList,
                   cfgc, ourStart, deferStop, pre, calls, other>>

\* A caller that returns the error of the storage call and leaves the record
FailOnly(op, name, undo) ==
    /\ undo
    /\ log' = Append(log, Ev(op, name, FALSE))
    /\ pc' = "done"
    /\ result' = op
    /\ UNCHANGED catalog

\* The caller's handling of a failed storage call op on the container it
\* created (lines 615-618, 695-698, 759-762, 927-930): the record is removed
\* from the database and the error returned; undo is whether the database
\* carried the removal out
RemoveAndFail(op, name, undo) ==
    /\ log' = log \o <<Ev(op, name, FALSE), Ev("ContainerRemove", name, undo)>>
    /\ catalog' = ContainerRemove(catalog, name, undo)
    /\ pc' = "done"
    /\ result' = op

\* A caller that returns the error of c.Delete() when the deletion fails
DeleteAndMask ==
    \E ok \in BOOLEAN :
        /\ catalog' = Delete(catalog, cfgc, ok)
        /\ log' = Append(log, Ev("Delete", cfgc, ok))
        /\ pc' = "done"
        /\ result' = IF ok THEN result ELSE "Delete failed"

\* The caller's handling of a configure failure: c.Delete() and return err
DeleteAndFail ==
    \E ok \in BOOLEAN :
        /\ catalog' = Delete(catalog, cfgc, ok)
        /\ log' = Append(log, Ev("Delete", cfgc, ok))
        /\ pc' = "done"
        /\ UNCHANGED result

(***************************************************************************)
(* containerCreateAsEmpty                                                  *)
(***************************************************************************)
\* Line 608
CallCreateAsEmpty ==
    /\ \E a \in ContainerRequests :
         /\ Begin("CreateAsEmpty", a)
         /\ CreateInternal(a, "empty_storage")
    /\ UNCHANGED <<host, catalog, backups, images, other>>

\* Lines 613-621: the empty storage is created, then configure is called
Empty_Storage ==
    /\ flow = "CreateAsEmpty"
    /\ pc = "empty_storage"
    /\ \E ok \in BOOLEAN, undo \in BOOLEAN :
         IF ok
         THEN /\ undo
              /\ log' = Append(log, Ev("Storage.ContainerCreate", args.Name, TRUE))
              /\ Configure(args.Name, "done")
              /\ UNCHANGED <<catalog, result>>
         ELSE /\ RemoveAndFail("Storage.ContainerCreate", args.Name, undo)
              /\ UNCHANGED <<cfgc, ret, ourStart>>
    /\ UNCHANGED <<host, backups, images, flow, args, cargs, idx, csList,
                   deferStop, pre, calls, other>>

\* Lines 622-625
Empty_ConfigureFailed ==
    /\ flow = "CreateAsEmpty"
    /\ pc = "cfg_failed"
    /\ DeleteAndFail
    /\ UNCHANGED <<host, backups, images, flow, args, cargs, ret, idx, csList, cfgc,
                   ourStart, deferStop, pre, calls, other>>

(***************************************************************************)
(* containerCreateEmptySnapshot                                            *)
(***************************************************************************)
\* Requests for a snapshot of the source container: a name that may be
\* taken and one that is free, a config that does not validate
SnapshotArgs ==
    [BaseArgs EXCEPT !.Name = <<"c1", SnapSeg[MaxSnapshots + 1]>>, !.Ctype = "snapshot"]

SnapshotRequests ==
    {SnapshotArgs,
     [SnapshotArgs EXCEPT !.Name = <<"c1", SnapSeg[1]>>],
     [SnapshotArgs EXCEPT !.Config = CfgBadSeccomp],
     [SnapshotArgs EXCEPT !.Devices = DevBadNic]}

\* Line 688
CallCreateEmptySnapshot ==
    /\ \E a \in SnapshotRequests :
         /\ Begin("CreateEmptySnapshot", a)
         /\ CreateInternal(a, "esnap_storage")
    /\ UNCHANGED <<host, catalog, backups, images, other>>

\* Lines 693-700
EmptySnapshot_Storage ==
    /\ flow = "CreateEmptySnapshot"
    /\ pc = "esnap_storage"
    /\ \E ok \in BOOLEAN, undo \in BOOLEAN :
         IF ok
         THEN /\ undo
              /\ log' = Append(log, Ev("Storage.ContainerSnapshotCreateEmpty", args.Name, TRUE))
              /\ Finish("ok")
              /\ UNCHANGED catalog
         ELSE /\ RemoveAndFail("Storage.ContainerSnapshotCreateEmpty", args.Name, undo)
    /\ UNCHANGED <<host, backups, images, flow, args, cargs, ret, idx, csList, cfgc,
                   ourStart, deferStop, pre, calls, other>>

(***************************************************************************)
(* containerCreateFromImage                                                *)
(***************************************************************************)
ImageHash == "h1"

\* img.Properties of the image
ImageProperties == [k \in {"os"} |-> "ubuntu"]

\* fmt.Sprintf("image.%s", k)
ImageKey(k) == CASE k = "os" -> "image.os" [] OTHER -> "image.other"

ImageArgs == [BaseArgs EXCEPT !.Config = EmptyMap]

ImageRequests ==
    {ImageArgs,
     [ImageArgs EXCEPT !.Name = <<"c1">>],
     [ImageArgs EXCEPT !.Name = <<"bad host">>],
     [ImageArgs EXCEPT !.Config = CfgBadSeccomp],
     [ImageArgs EXCEPT !.Devices = DevBadNic],
     [ImageArgs EXCEPT !.Devices = DevRootSized]}

\* Lines 735-746: the image.* keys and BaseImage are set, then the container is created
Image_Create ==
    /\ args' = [args EXCEPT
                  !.Config = [k \in DOMAIN args.Config \cup {ImageKey(q) : q \in DOMAIN ImageProperties} |->
                                 IF \E q \in DOMAIN ImageProperties : ImageKey(q) = k
                                 THEN ImageProperties[CHOOSE q \in DOMAIN ImageProperties : ImageKey(q) = k]
                                 ELSE args.Config[k]],
                  !.BaseImage = ImageHash]
    /\ CreateInternal(args', "img_access")

\* Line 704
CallCreateFromImage ==
    /\ \E a \in ImageRequests : Begin("CreateFromImage", a)
    /\ pc' = "img_lookup"
    /\ UNCHANGED <<host, catalog, backups, images, cargs, ret, other>>

\* Lines 706-717: ImageGet and ImageLocate; the image is on another node
\* when it is remote and not yet associated with this one
Image_Lookup ==
    /\ flow = "CreateFromImage"
    /\ pc = "img_lookup"
    /\ \E r \in {"ok", "ImageGet failed", "ImageLocate failed"} :
         IF r # "ok"
         THEN Finish(r) /\ UNCHANGED <<args, cargs, ret>>
         ELSE IF images.remote /\ ~images.associated
              THEN pc' = "img_transfer" /\ UNCHANGED <<args, cargs, ret, result>>
              ELSE Image_Create /\ UNCHANGED result
    /\ UNCHANGED <<host, catalog, backups, images, flow, idx, csList, cfgc,
                   ourStart, deferStop, pre, log, calls, other>>

\* Lines 717-733: the image is imported from the other node and associated
\* with this one
Image_Transfer ==
    /\ flow = "CreateFromImage"
    /\ pc = "img_transfer"
    /\ \E r \in {"ok", "cluster.Connect failed", "imageImportFromNode failed",
                 "ImageAssociateNode failed"} :
         /\ log' = log \o
               (IF r = "cluster.Connect failed" THEN << >>
                ELSE <<Ev("imageImportFromNode", <<ImageHash>>, r # "imageImportFromNode failed")>>)
               \o (IF r \in {"ok", "ImageAssociateNode failed"}
                   THEN <<Ev("ImageAssociateNode", <<ImageHash>>, r = "ok")>> ELSE << >>)
         /\ IF r = "ok"
            THEN /\ images' = [images EXCEPT !.associated = TRUE]
                 /\ Image_Create
                 /\ UNCHANGED result
            ELSE /\ Finish(r)
                 /\ UNCHANGED <<images, args, cargs, ret>>
    /\ UNCHANGED <<host, catalog, backups, flow, idx, csList, cfgc,
                   ourStart, deferStop, pre, calls, other>>

\* A containerCreateFromImage that returns the error of ImageLastAccessUpdate
\* and leaves the record
Image_AccessKeeps ==
    /\ flow = "CreateFromImage"
    /\ pc = "img_access"
    /\ \E ok \in BOOLEAN :
         /\ log' = Append(log, Ev("ImageLastAccessUpdate", <<ImageHash>>, ok))
         /\ images' = [images EXCEPT !.accessed = @ \/ ok]
         /\ IF ok THEN pc' = "img_storage" /\ UNCHANGED result
                  ELSE Finish("Error updating image last use date")
    /\ UNCHANGED <<host, catalog, backups, flow, args, cargs, ret, idx, csList, cfgc,
                   ourStart, deferStop, pre, calls, other>>

\* Lines 751-755: ImageLastAccessUpdate
Image_Access ==
    /\ flow = "CreateFromImage"
    /\ pc = "img_access"
    /\ \E ok \in BOOLEAN, undo \in BOOLEAN :
         IF ok
         THEN /\ undo
              /\ log' = Append(log, Ev("ImageLastAccessUpdate", <<ImageHash>>, TRUE))
              /\ images' = [images EXCEPT !.accessed = TRUE]
              /\ pc' = "img_storage"
              /\ UNCHANGED <<catalog, result>>
         ELSE /\ log' = log \o <<Ev("ImageLastAccessUpdate", <<ImageHash>>, FALSE),
                                 Ev("ContainerRemove", args.Name, undo)>>
              /\ catalog' = ContainerRemove(catalog, args.Name, undo)
              /\ Finish("Error updating image last use date")
              /\ UNCHANGED images
    /\ UNCHANGED <<host, backups, flow, args, cargs, ret, idx, csList, cfgc,
                   ourStart, deferStop, pre, calls, other>>

\* Lines 757-765: the storage is created from the image, then configure is called
Image_Storage ==
    /\ flow = "CreateFromImage"
    /\ pc = "img_storage"
    /\ \E ok \in BOOLEAN, undo \in BOOLEAN :
         IF ok
         THEN /\ undo
              /\ log' = Append(log, Ev("Storage.ContainerCreateFromImage", args.Name, TRUE))
              /\ Configure(args.Name, "done")
              /\ UNCHANGED <<catalog, result>>
         ELSE /\ RemoveAndFail("Storage.ContainerCreateFromImage", args.Name, undo)
              /\ UNCHANGED <<cfgc, ret, ourStart>>
    /\ UNCHANGED <<host, backups, images, flow, args, cargs, idx, csList,
                   deferStop, pre, calls, other>>

\* Lines 766-769
Image_ConfigureFailed ==
    /\ flow = "CreateFromImage"
    /\ pc = "cfg_failed"
    /\ DeleteAndFail
    /\ UNCHANGED <<host, backups, images, flow, args, cargs, ret, idx, csList, cfgc,
                   ourStart, deferStop, pre, calls, other>>


(***************************************************************************)
(* containerCreateAsCopy                                                   *)
(***************************************************************************)
\* The copy requests: args and containerOnly
CopyRequests ==
    {[a |-> a, containerOnly |-> o] :
        a \in {BaseArgs,
               [BaseArgs EXCEPT !.Name = <<"c1">>],
               [BaseArgs EXCEPT !.Config = CfgBadSeccomp],
               [BaseArgs EXCEPT !.Devices = DevRootSized]},
        o \in BOOLEAN}

\* sourceContainer.Snapshots(): the snapshots of the source, in name order
SegIndex(seg) == CHOOSE i \in DOMAIN SnapSeg : SnapSeg[i] = seg

Snapshots(cat) ==
    LET S == SourceSnapshots(cat) IN
    CHOOSE f \in [1..Cardinality(S) -> S] :
        \A i, j \in 1..Cardinality(S) : i < j => SegIndex(f[i][2]) < SegIndex(f[j][2])

\* Lines 784-789: the pool of the root disk device of the new container
ParentStoragePool(cat, name) ==
    LET devs == ExpandedDevices(cat[name].devices)
        key == GetRootDiskDeviceKey(devs)
    IN  IF key # "" THEN Get(devs[key], "pool") ELSE ""

\* A copy that hands the local devices of the snapshot on as they are
SnapDevicesKept(snapDevices, parentStoragePool) == snapDevices

\* Lines 806-818: the local devices of the snapshot with the pool of the parent
SnapDevices(snapDevices, parentStoragePool) ==
    IF snapDevices = NilMap THEN snapDevices
    ELSE LET key == GetRootDiskDeviceKey(snapDevices) IN
         IF key # ""
         THEN [snapDevices EXCEPT ![key] = Put(snapDevices[key], "pool", parentStoragePool)]
         ELSE Put(snapDevices, "root", RootDevice(parentStoragePool, ""))

\* Lines 820-831: the args of the copy of snapshot snap
CsArgs(cat, ctName, snap) ==
    [BaseArgs EXCEPT
        !.Name = <<ctName[1]>> \o SubSeq(snap, 2, Len(snap)),
        !.Ctype = "snapshot",
        !.Config = EmptyMap,
        !.Architecture = "x86_64",
        !.Profiles = <<"default">>,
        !.Devices = SnapDevices(cat[snap].devices, ParentStoragePool(cat, ctName))]

\* The loop of lines 800-840 at snapshot i: its copy is created, or the
\* loop is over and the storage is cloned
CopyLoop(i) ==
    IF i <= Len(Snapshots(catalog))
    THEN /\ idx' = i
         /\ CreateInternal(CsArgs(catalog, args.a.Name, Snapshots(catalog)[i]), "copy_created")
    ELSE /\ pc' = "copy_storage"
         /\ UNCHANGED <<idx, cargs, ret>>

\* Line 776
CallCreateAsCopy ==
    /\ \E r \in CopyRequests :
         /\ Begin("CreateAsCopy", r)
         /\ CreateInternal(r.a, "copy_snapshots")
    /\ UNCHANGED <<host, catalog, backups, images, other>>

\* Lines 784-799: the snapshots of the source are listed
Copy_Snapshots ==
    /\ flow = "CreateAsCopy"
    /\ pc = "copy_snapshots"
    /\ IF args.containerOnly
       THEN /\ pc' = "copy_storage"
            /\ UNCHANGED <<catalog, log, result, idx, cargs, ret>>
       ELSE \E ok \in BOOLEAN, undo \in BOOLEAN :
            IF ok
            THEN /\ undo
                 /\ CopyLoop(1)
                 /\ UNCHANGED <<catalog, log, result>>
            ELSE /\ catalog' = ContainerRemove(catalog, args.a.Name, undo)
                 /\ log' = Append(log, Ev("ContainerRemove", args.a.Name, undo))
                 /\ Finish("Snapshots failed")
                 /\ UNCHANGED <<idx, cargs, ret>>
    /\ UNCHANGED <<host, backups, images, flow, args, csList, cfgc,
                   ourStart, deferStop, pre, calls, other>>

\* Lines 839-840: the copy of snapshot idx joins csList, and the loop goes on
Copy_Created ==
    /\ flow = "CreateAsCopy"
    /\ pc = "copy_created"
    /\ csList' = Append(csList, cargs.Name)
    /\ CopyLoop(idx + 1)
    /\ UNCHANGED <<host, catalog, backups, images, flow, args, cfgc,
                   ourStart, deferStop, result, pre, log, calls, other>>

\* The removals of lines 846-849, in the order made; undo[i] is whether
\* removal i was carried out
RECURSIVE RemoveAll(_, _, _, _)
RemoveAll(cat, names, undo, i) ==
    IF i > Len(names) THEN cat
    ELSE RemoveAll(ContainerRemove(cat, names[i], undo[i]), names, undo, i + 1)

\* A rollback that removes the container only
CopyUndoTarget(cs, name) == <<name>>

\* A rollback in the reverse of the order of creation
CopyUndoReversed(cs, name) == [i \in 1..Len(cs) |-> cs[Len(cs) + 1 - i]] \o <<name>>

\* Lines 846-849: what the failed copy removes from the database, in order:
\* every snapshot of csList, then the container
CopyUndoNames(cs, name) == cs \o <<name>>

\* Lines 843-854: the storage is cloned; on failure the snapshots and then
\* the container are removed from the database
Copy_Storage ==
    /\ flow = "CreateAsCopy"
    /\ pc = "copy_storage"
    /\ \E ok \in BOOLEAN :
         IF ok
         THEN /\ log' = Append(log, Ev("Storage.ContainerCopy", args.a.Name, TRUE))
              /\ Configure(args.a.Name, "copy_configured")
              /\ idx' = 0
              /\ UNCHANGED <<catalog, result>>
         ELSE LET names == CopyUndoNames(csList, args.a.Name) IN
              \E undo \in [1..Len(names) -> BOOLEAN] :
                 /\ log' = log \o <<Ev("Storage.ContainerCopy", args.a.Name, FALSE)>>
                               \o [i \in 1..Len(names) |-> Ev("ContainerRemove", names[i], undo[i])]
                 /\ catalog' = RemoveAll(catalog, names, undo, 1)
                 /\ Finish("Storage.ContainerCopy failed")
                 /\ UNCHANGED <<cfgc, ret, ourStart, idx>>
    /\ UNCHANGED <<host, backups, images, flow, args, cargs, csList,
                   deferStop, pre, calls, other>>

\* Lines 860-871: configure is run on the next snapshot of csList, or the
\* container is returned
Copy_Configured ==
    /\ flow = "CreateAsCopy"
    /\ pc = "copy_configured"
    /\ IF ~args.containerOnly /\ idx < Len(csList)
       THEN /\ idx' = idx + 1
            /\ Configure(csList[idx + 1], "copy_configured")
            /\ UNCHANGED result
       ELSE /\ Finish("ok")
            /\ UNCHANGED <<idx, cfgc, ret, ourStart>>
    /\ UNCHANGED <<host, catalog, backups, images, flow, args, cargs, csList,
                   deferStop, pre, log, calls, other>>

\* A containerCreateAsCopy that deletes the container and every snapshot
\* copy when a configure fails
Copy_ConfigureFailedAll ==
    /\ flow = "CreateAsCopy"
    /\ pc = "cfg_failed"
    /\ LET names == CopyUndoNames(csList, args.a.Name) IN
       /\ log' = log \o [i \in 1..Len(names) |-> Ev("Delete", names[i], TRUE)]
       /\ catalog' = RemoveAll(catalog, names, [i \in 1..Len(names) |-> TRUE], 1)
       /\ pc' = "done"
    /\ UNCHANGED <<host, backups, images, flow, args, cargs, ret, idx, csList, cfgc,
                   ourStart, deferStop, result, pre, calls, other>>

\* Lines 855-858 and 864-867
Copy_ConfigureFailed ==
    /\ flow = "CreateAsCopy"
    /\ pc = "cfg_failed"
    /\ DeleteAndFail
    /\ UNCHANGED <<host, backups, images, flow, args, cargs, ret, idx, csList, cfgc,
                   ourStart, deferStop, pre, calls, other>>


(***************************************************************************)
(* containerCreateAsSnapshot                                               *)
(***************************************************************************)
AsSnapshotRequests ==
    {[a EXCEPT !.Stateful = st] : a \in SnapshotRequests, st \in BOOLEAN}

\* The deferred c.StorageStop() calls run when the function returns
RunDeferred(l) ==
    IF deferStop = {} THEN l
    ELSE Append(l, Ev("StorageStop", CHOOSE c \in deferStop : TRUE, TRUE))

\* Lines 876, 920: a stateless snapshot goes straight to the creation
CallCreateAsSnapshot ==
    /\ \E a \in AsSnapshotRequests :
         /\ Begin("CreateAsSnapshot", a)
         /\ IF a.Stateful
            THEN pc' = "snap_state" /\ UNCHANGED <<cargs, ret>>
            ELSE CreateInternal(a, "snap_storage")
    /\ UNCHANGED <<host, catalog, backups, images, other>>

\* A containerCreateAsSnapshot that makes the state directory before it looks
\* at the source
Snapshot_StateAnyway ==
    /\ flow = "CreateAsSnapshot"
    /\ pc = "snap_state"
    /\ \E running \in BOOLEAN, mkdir \in BOOLEAN :
         /\ log' = log \o <<Ev("IsRunning", SourceName, running),
                             Ev("MkdirAll", SourceName, mkdir)>>
         /\ IF mkdir
            THEN IF running
                 THEN stateDir' = TRUE /\ pc' = "snap_migrate" /\ UNCHANGED result
                 ELSE stateDir' = TRUE /\ Finish("The container isn't running")
            ELSE Finish("MkdirAll failed") /\ UNCHANGED stateDir
    /\ UNCHANGED <<host, catalog, backups, images, flow, args, cargs, ret, idx, csList,
                   cfgc, ourStart, deferStop, pre, calls, pool, fixBackupFile, vcfg, vout>>

\* Lines 877-890: the source must run, criu must be there, and the state
\* directory is made
Snapshot_State ==
    /\ flow = "CreateAsSnapshot"
    /\ pc = "snap_state"
    /\ \E running \in BOOLEAN, criu \in BOOLEAN, mkdir \in BOOLEAN :
         IF ~running
         THEN /\ criu /\ mkdir
              /\ log' = Append(log, Ev("IsRunning", SourceName, FALSE))
              /\ Finish("The container isn't running")
              /\ UNCHANGED stateDir
         ELSE IF ~criu
         THEN /\ mkdir
              /\ log' = Append(log, Ev("IsRunning", SourceName, TRUE))
              /\ Finish("CRIU isn't installed")
              /\ UNCHANGED stateDir
         ELSE /\ log' = log \o <<Ev("IsRunning", SourceName, TRUE),
                                 Ev("MkdirAll", SourceName, mkdir)>>
              /\ IF mkdir
                 THEN stateDir' = TRUE /\ pc' = "snap_migrate" /\ UNCHANGED result
                 ELSE Finish("MkdirAll failed") /\ UNCHANGED stateDir
    /\ UNCHANGED <<host, catalog, backups, images, flow, args, cargs, ret, idx, csList,
                   cfgc, ourStart, deferStop, pre, calls, pool, fixBackupFile, vcfg, vout>>

\* Lines 902-920: the checkpoint dump; the state directory is removed when it fails
Snapshot_Migrate ==
    /\ flow = "CreateAsSnapshot"
    /\ pc = "snap_migrate"
    /\ \E ok \in BOOLEAN, undo \in BOOLEAN :
         IF ok
         THEN /\ undo
              /\ log' = Append(log, Ev("Migrate", SourceName, TRUE))
              /\ CreateInternal(args, "snap_storage")
              /\ UNCHANGED <<stateDir, result>>
         ELSE /\ log' = log \o <<Ev("Migrate", SourceName, FALSE),
                                 Ev("RemoveAll", SourceName, undo)>>
              /\ stateDir' = (stateDir /\ ~undo)
              /\ Finish("Migrate failed")
              /\ UNCHANGED <<cargs, ret>>
    /\ UNCHANGED <<host, catalog, backups, images, flow, args, idx, csList,
                   cfgc, ourStart, deferStop, pre, calls, pool, fixBackupFile, vcfg, vout>>

\* Lines 925-930: the storage snapshot
Snapshot_Storage ==
    /\ flow = "CreateAsSnapshot"
    /\ pc = "snap_storage"
    /\ \E ok \in BOOLEAN, undo \in BOOLEAN :
         IF ok
         THEN /\ undo
              /\ log' = Append(log, Ev("Storage.ContainerSnapshotCreate", args.Name, TRUE))
              /\ pc' = "snap_start"
              /\ UNCHANGED <<catalog, result>>
         ELSE /\ RemoveAndFail("Storage.ContainerSnapshotCreate", args.Name, undo)
    /\ UNCHANGED <<host, backups, images, flow, args, cargs, ret, idx, csList, cfgc,
                   ourStart, deferStop, pre, calls, other>>

\* Lines 932-938: c.StorageStart(), and the deferred stop when it started it
Snapshot_Start ==
    /\ flow = "CreateAsSnapshot"
    /\ pc = "snap_start"
    /\ \E r \in {"started", "already", "error"} :
         /\ log' = Append(log, EvStart(args.Name, r))
         /\ IF r = "error"
            THEN Finish("StorageStart failed") /\ UNCHANGED <<ourStart, deferStop>>
            ELSE /\ pc' = "snap_backup"
                 /\ ourStart' = (r = "started")
                 /\ deferStop' = IF r = "started" THEN {args.Name} ELSE {}
                 /\ UNCHANGED result
    /\ UNCHANGED <<host, catalog, backups, images, flow, args, cargs, ret, idx, csList,
                   cfgc, pre, calls, other>>

\* A containerCreateAsSnapshot that sends the event before it writes the
\* backup file of the source
Snapshot_BackupEventFirst ==
    /\ flow = "CreateAsSnapshot"
    /\ pc = "snap_backup"
    /\ \E ok \in BOOLEAN, undo \in BOOLEAN :
         IF ok
         THEN /\ log' = RunDeferred(
                    log \o <<Ev("eventSendLifecycle", args.Name, TRUE),
                             Ev("writeBackupFile", SourceName, TRUE)>>
                    \o (IF args.Stateful THEN <<Ev("RemoveAll", SourceName, undo)>> ELSE << >>))
              /\ IF args.Stateful THEN stateDir' = (stateDir /\ ~undo)
                                  ELSE undo /\ UNCHANGED stateDir
              /\ Finish("ok")
              /\ UNCHANGED catalog
         ELSE /\ log' = RunDeferred(log \o <<Ev("eventSendLifecycle", args.Name, TRUE),
                                             Ev("writeBackupFile", SourceName, FALSE),
                                             Ev("Delete", args.Name, undo)>>)
              /\ catalog' = Delete(catalog, args.Name, undo)
              /\ Finish("writeBackupFile failed")
              /\ UNCHANGED stateDir
    /\ UNCHANGED <<host, backups, images, flow, args, cargs, ret, idx, csList, cfgc,
                   ourStart, deferStop, pre, calls, pool, fixBackupFile, vcfg, vout>>

\* Lines 940-957: the backup file of the source is written, the state
\* directory removed and the event sent
Snapshot_Backup ==
    /\ flow = "CreateAsSnapshot"
    /\ pc = "snap_backup"
    /\ \E ok \in BOOLEAN, undo \in BOOLEAN :
         IF ok
         THEN /\ log' = RunDeferred(
                    Append(log, Ev("writeBackupFile", SourceName, TRUE))
                    \o (IF args.Stateful THEN <<Ev("RemoveAll", SourceName, undo)>> ELSE << >>)
                    \o <<Ev("eventSendLifecycle", args.Name, TRUE)>>)
              /\ IF args.Stateful THEN stateDir' = (stateDir /\ ~undo)
                                  ELSE undo /\ UNCHANGED stateDir
              /\ Finish("ok")
              /\ UNCHANGED catalog
         ELSE /\ log' = RunDeferred(log \o <<Ev("writeBackupFile", SourceName, FALSE),
                                             Ev("Delete", args.Name, undo)>>)
              /\ catalog' = Delete(catalog, args.Name, undo)
              /\ Finish("writeBackupFile failed")
              /\ UNCHANGED stateDir
    /\ UNCHANGED <<host, backups, images, flow, args, cargs, ret, idx, csList, cfgc,
                   ourStart, deferStop, pre, calls, pool, fixBackupFile, vcfg, vout>>

(***************************************************************************)
(* containerBackupCreate                                                   *)
(***************************************************************************)
BackupRequests == {[Name |-> <<"c1", "b1">>], [Name |-> <<"c1", "b2">>]}

\* db ContainerBackupRemove; ok is whether the database carried it out
ContainerBackupRemove(bs, name, ok) == IF ok THEN bs \ {name} ELSE bs

\* Line 1158
CallContainerBackupCreate ==
    /\ \E a \in BackupRequests : Begin("ContainerBackupCreate", a)
    /\ pc' = "bk_create"
    /\ UNCHANGED <<host, catalog, backups, images, cargs, ret, other>>

\* Lines 1160-1166: the backup record is inserted, unless the name is taken
Backup_Create ==
    /\ flow = "ContainerBackupCreate"
    /\ pc = "bk_create"
    /\ IF args.Name \in backups
       THEN /\ log' = Append(log, Ev("ContainerBackupCreate", args.Name, FALSE))
            /\ Finish("backup already exists")
            /\ UNCHANGED backups
       ELSE \E ok \in BOOLEAN :
            /\ log' = Append(log, Ev("ContainerBackupCreate", args.Name, ok))
            /\ IF ok
               THEN backups' = backups \cup {args.Name} /\ pc' = "bk_load" /\ UNCHANGED result
               ELSE Finish("ContainerBackupCreate: database error") /\ UNCHANGED backups
    /\ UNCHANGED <<host, catalog, images, flow, args, cargs, ret, idx, csList, cfgc,
                   ourStart, deferStop, pre, calls, other>>

\* Lines 1168-1171: containerBackupLoadByName
Backup_Load ==
    /\ flow = "ContainerBackupCreate"
    /\ pc = "bk_load"
    /\ \E ok \in BOOLEAN :
         /\ log' = Append(log, Ev("containerBackupLoadByName", args.Name, ok))
         /\ IF ok THEN pc' = "bk_storage" /\ UNCHANGED result
                  ELSE Finish("containerBackupLoadByName failed")
    /\ UNCHANGED <<host, catalog, backups, images, flow, args, cargs, ret, idx, csList,
                   cfgc, ourStart, deferStop, pre, calls, other>>

\* Lines 1173-1178: the storage driver creates the backup
Backup_Storage ==
    /\ flow = "ContainerBackupCreate"
    /\ pc = "bk_storage"
    /\ \E ok \in BOOLEAN, undo \in BOOLEAN :
         IF ok
         THEN /\ undo
              /\ log' = Append(log, Ev("Storage.ContainerBackupCreate", args.Name, TRUE))
              /\ pc' = "bk_index"
              /\ UNCHANGED <<backups, result>>
         ELSE /\ log' = log \o <<Ev("Storage.ContainerBackupCreate", args.Name, FALSE),
                                 Ev("ContainerBackupRemove", args.Name, undo)>>
              /\ backups' = ContainerBackupRemove(backups, args.Name, undo)
              /\ Finish("Storage.ContainerBackupCreate failed")
    /\ UNCHANGED <<host, catalog, images, flow, args, cargs, ret, idx, csList, cfgc,
                   ourStart, deferStop, pre, calls, other>>

\* Lines 1180-1187: the index file is written
Backup_Index ==
    /\ flow = "ContainerBackupCreate"
    /\ pc = "bk_index"
    /\ \E ok \in BOOLEAN, undo \in BOOLEAN :
         IF ok
         THEN /\ undo
              /\ log' = Append(log, Ev("createBackupIndexFile", args.Name, TRUE))
              /\ Finish("ok")
              /\ UNCHANGED backups
         ELSE /\ log' = log \o <<Ev("createBackupIndexFile", args.Name, FALSE),
                                 Ev("ContainerBackupRemove", args.Name, undo)>>
              /\ backups' = ContainerBackupRemove(backups, args.Name, undo)
              /\ Finish("createBackupIndexFile failed")
    /\ UNCHANGED <<host, catalog, images, flow, args, cargs, ret, idx, csList, cfgc,
                   ourStart, deferStop, pre, calls, other>>

(***************************************************************************)
(* containerCreateFromBackup                                               *)
(***************************************************************************)
\* The backupInfo of the call: the pool index.yaml names, and the format
BackupInfos == [Pool : {"p1", "gone"}, HasBinaryFormat : BOOLEAN]

\* Line 631
CallCreateFromBackup ==
    /\ \E info \in BackupInfos : Begin("CreateFromBackup", info)
    /\ pc' = "fb_resolve"
    /\ UNCHANGED <<host, catalog, backups, images, cargs, ret, other>>

\* Lines 635-666: the pool of the backup is initialised; when it does not
\* exist and the backup can be altered, the pool of the root disk device of
\* the default profile is taken
FromBackup_Resolve ==
    /\ flow = "CreateFromBackup"
    /\ pc = "fb_resolve"
    /\ \E unexpected \in BOOLEAN, profileOk \in BOOLEAN, defaultOk \in BOOLEAN :
         LET exists == args.Pool \in host.pools
             key == GetRootDiskDeviceKey(ProfileDevices)
         IN
         IF unexpected
         THEN /\ profileOk /\ defaultOk
              /\ Finish("storagePoolInit failed")
              /\ UNCHANGED <<pool, fixBackupFile>>
         ELSE IF exists
         THEN /\ profileOk /\ defaultOk
              /\ pool' = args.Pool
              /\ pc' = "fb_load"
              /\ UNCHANGED <<fixBackupFile, result>>
         ELSE IF args.HasBinaryFormat
         THEN /\ profileOk /\ defaultOk
              /\ Finish("No such object")
              /\ UNCHANGED <<pool, fixBackupFile>>
         ELSE IF ~profileOk
         THEN /\ defaultOk
              /\ Finish("ProfileGet failed")
              /\ UNCHANGED <<pool, fixBackupFile>>
         ELSE IF key = ""
         THEN /\ defaultOk
              /\ Finish("No root device could be found")
              /\ UNCHANGED <<pool, fixBackupFile>>
         ELSE IF ~defaultOk \/ Get(ProfileDevices[key], "pool") \notin host.pools
         THEN /\ Finish("storagePoolInit of the default pool failed")
              /\ UNCHANGED <<pool, fixBackupFile>>
         ELSE /\ pool' = Get(ProfileDevices[key], "pool")
              /\ fixBackupFile' = TRUE
              /\ pc' = "fb_load"
              /\ UNCHANGED result
    /\ UNCHANGED <<host, catalog, backups, images, flow, args, cargs, ret, idx, csList,
                   cfgc, ourStart, deferStop, pre, log, calls, stateDir, vcfg, vout>>

\* containerCreateFromBackup going on to the backup file whatever the unpack returned
FromBackup_LoadThenFix ==
    /\ flow = "CreateFromBackup"
    /\ pc = "fb_load"
    /\ \E ok \in BOOLEAN :
         /\ log' = Append(log, Ev("ContainerBackupLoad", <<pool>>, ok))
         /\ IF fixBackupFile THEN pc' = "fb_fix" /\ UNCHANGED result
            ELSE Finish(IF ok THEN "ok" ELSE "ContainerBackupLoad failed")
    /\ UNCHANGED <<host, catalog, backups, images, flow, args, cargs, ret, idx, csList,
                   cfgc, ourStart, deferStop, pre, calls, other>>

\* Lines 668-672: the tarball is unpacked on the pool
FromBackup_Load ==
    /\ flow = "CreateFromBackup"
    /\ pc = "fb_load"
    /\ \E ok \in BOOLEAN :
         /\ log' = Append(log, Ev("ContainerBackupLoad", <<pool>>, ok))
         /\ IF ~ok THEN Finish("ContainerBackupLoad failed")
            ELSE IF fixBackupFile THEN pc' = "fb_fix" /\ UNCHANGED result
            ELSE Finish("ok")
    /\ UNCHANGED <<host, catalog, backups, images, flow, args, cargs, ret, idx, csList,
                   cfgc, ourStart, deferStop, pre, calls, other>>

\* Lines 674-683: the pool named in the backup file is rewritten
FromBackup_Fix ==
    /\ flow = "CreateFromBackup"
    /\ pc = "fb_fix"
    /\ \E ok \in BOOLEAN :
         /\ log' = Append(log, Ev("fixBackupStoragePool", <<pool>>, ok))
         /\ Finish(IF ok THEN "ok" ELSE "fixBackupStoragePool failed")
    /\ UNCHANGED <<host, catalog, backups, images, flow, args, cargs, ret, idx, csList,
                   cfgc, ourStart, deferStop, pre, calls, other>>

(***************************************************************************)
(* Specification                                                           *)
(***************************************************************************)
Next ==
    \/ CallCreateAsEmpty
    \/ CI_Validate
    \/ CI_Insert
    \/ CI_Get
    \/ CI_LXCCreate
    \/ Cfg_Root
    \/ Cfg_Start
    \/ Cfg_Quota
    \/ Cfg_Backup
    \/ Empty_Storage
    \/ Empty_ConfigureFailed
    \/ CallCreateEmptySnapshot
    \/ EmptySnapshot_Storage
    \/ CallCreateFromImage
    \/ Image_Lookup
    \/ Image_Transfer
    \/ Image_Access
    \/ Image_Storage
    \/ Image_ConfigureFailed
    \/ CallCreateAsCopy
    \/ Copy_Snapshots
    \/ Copy_Created
    \/ Copy_Storage
    \/ Copy_Configured
    \/ Copy_ConfigureFailed
    \/ CallCreateAsSnapshot
    \/ Snapshot_State
    \/ Snapshot_Migrate
    \/ Snapshot_Storage
    \/ Snapshot_Start
    \/ Snapshot_Backup
    \/ CallContainerBackupCreate
    \/ Backup_Create
    \/ Backup_Load
    \/ Backup_Storage
    \/ Backup_Index
    \/ CallCreateFromBackup
    \/ FromBackup_Resolve
    \/ FromBackup_Load
    \/ FromBackup_Fix
    \/ Return

Spec == Init /\ [][Next]_vars

(***************************************************************************)
(* containerValidConfig on its own                                         *)
(***************************************************************************)
\* The keys of the configs handed to containerValidConfig, and their values
SeccompKeys == {"raw.seccomp", "security.syscalls.whitelist", "security.syscalls.blacklist",
                "security.syscalls.blacklist_default", "security.syscalls.blacklist_compat"}

ValidateKeys == SeccompKeys \cup {"security.privileged", "raw.idmap"}

\* The raw.idmap values handed in: with and without a host id 0, and one
\* that does not parse
IdmapValues == {"both 0 1000", "both 1000 2000", "uid 1000 5; gid 0 5", "garbage"}

ValidateValues(k) ==
    IF k \in BoolConfigKeys THEN {"true", "false"}
    ELSE IF k = "raw.idmap" THEN IdmapValues
    ELSE {"2 ALLOW"}

\* The configs of at most MaxKeys keys
ValidateConfigs ==
    UNION {{f \in [D -> UNION {ValidateValues(k) : k \in D}] :
                \A k \in D : f[k] \in ValidateValues(k)} :
             D \in {K \in SUBSET ValidateKeys : Cardinality(K) <= MaxKeys}}

\* The hosts the validation runs on: with or without a uid/gid allocation,
\* with or without LXD_UNPRIVILEGED_ONLY
ValidateHosts ==
    {[DefaultHost EXCEPT !.os.IdmapSet = i, !.unprivOnly = u] :
        i \in {"set", "nil"}, u \in {"", "true", "false"}}

InitValidate ==
    /\ host \in ValidateHosts
    /\ catalog = InitCatalog(0)
    /\ backups = {}
    /\ images = [remote |-> FALSE, associated |-> FALSE, accessed |-> FALSE]
    /\ flow = "idle"
    /\ pc = "idle"
    /\ args = NoArgs
    /\ cargs = NoArgs
    /\ ret = "none"
    /\ idx = 0
    /\ csList = << >>
    /\ cfgc = << >>
    /\ ourStart = FALSE
    /\ deferStop = {}
    /\ result = "none"
    /\ pre = [catalog |-> catalog, backups |-> backups, images |-> images, stateDir |-> FALSE]
    /\ log = << >>
    /\ calls = 0
    /\ stateDir = FALSE
    /\ pool = ""
    /\ fixBackupFile = FALSE
    /\ vcfg \in ValidateConfigs
    /\ vout = "none"

\* Lines 267-320: containerValidConfig(sysOS, config, profile, expanded)
Validate ==
    /\ vout = "none"
    /\ \E profile \in BOOLEAN, expanded \in BOOLEAN :
         vout' = IF containerValidConfig(host.os, host.unprivOnly, vcfg, profile, expanded)
                 THEN "accepted" ELSE "rejected"
    /\ UNCHANGED <<host, catalog, backups, images, flow, pc, args, cargs, ret, idx, csList,
                   cfgc, ourStart, deferStop, result, pre, log, calls, stateDir, pool,
                   fixBackupFile, vcfg>>

NextValidate == Validate

SpecValidate == InitValidate /\ [][NextValidate]_vars

(***************************************************************************)
(* containerValidDevices on its own                                        *)
(***************************************************************************)
\* The keys of the devices handed to containerValidDevices beside "type",
\* and their values; "bogus" is in no key table
SampleDeviceKeys == {"path", "source", "size", "nictype", "parent", "vendorid", "bogus"}

SampleDeviceValues(k) ==
    CASE k = "path" -> {"/", "/data"}
      [] k = "source" -> {"/mnt/x"}
      [] k = "size" -> {"10GB"}
      [] k = "nictype" -> {"bridged"}
      [] k = "parent" -> {"br0"}
      [] k = "vendorid" -> {"0abc"}
      [] OTHER -> {"1"}

\* The types handed in: those of the enumeration and one that is not
SampleTypes == DeviceTypes \cup {"tape"}

\* The devices of at most MaxKeys keys beside the type; one without a type
SampleDevices ==
    UNION {{f \in [D -> UNION {SampleDeviceValues(k) : k \in D}] :
                \A k \in D : f[k] \in SampleDeviceValues(k)} :
             D \in {K \in SUBSET SampleDeviceKeys : Cardinality(K) <= MaxKeys}}

Typed(m, t) == [k \in DOMAIN m \cup {"type"} |-> IF k = "type" THEN t ELSE m[k]]

\* The other device of a map of two
PeerDevices == {[type |-> "disk", path |-> "/"],
                [type |-> "disk", path |-> "/data", source |-> "/mnt/x"],
                [type |-> "none"]}

\* The device maps: nil, one device, or one device and a peer
SampleDeviceMaps ==
    {NilMap}
    \cup {[n \in {"d1"} |-> m] : m \in SampleDevices \ {EmptyMap}}
    \cup {[n \in {"d1"} |-> Typed(m, t)] : m \in SampleDevices, t \in SampleTypes}
    \cup {[n \in {"d1", "d2"} |-> IF n = "d1" THEN Typed(m, t) ELSE q] :
             m \in SampleDevices, t \in SampleTypes, q \in PeerDevices}

\* args holds the profile and expanded arguments of the call
InitDevices ==
    /\ host = DefaultHost
    /\ catalog = InitCatalog(0)
    /\ backups = {}
    /\ images = [remote |-> FALSE, associated |-> FALSE, accessed |-> FALSE]
    /\ flow = "idle"
    /\ pc = "idle"
    /\ args \in [profile : BOOLEAN, expanded : BOOLEAN]
    /\ cargs = NoArgs
    /\ ret = "none"
    /\ idx = 0
    /\ csList = << >>
    /\ cfgc = << >>
    /\ ourStart = FALSE
    /\ deferStop = {}
    /\ result = "none"
    /\ pre = [catalog |-> catalog, backups |-> backups, images |-> images, stateDir |-> FALSE]
    /\ log = << >>
    /\ calls = 0
    /\ stateDir = FALSE
    /\ pool = ""
    /\ fixBackupFile = FALSE
    /\ vcfg \in SampleDeviceMaps
    /\ vout = "none"

\* Lines 322-488: containerValidDevices(db, devices, profile, expanded)
ValidateDevices ==
    /\ vout = "none"
    /\ vout' = IF containerValidDevices(host, vcfg, args.profile, args.expanded)
               THEN "accepted" ELSE "rejected"
    /\ UNCHANGED <<host, catalog, backups, images, flow, pc, args, cargs, ret, idx, csList,
                   cfgc, ourStart, deferStop, result, pre, log, calls, stateDir, pool,
                   fixBackupFile, vcfg>>

NextDevices == ValidateDevices

SpecDevices == InitDevices /\ [][NextDevices]_vars

(***************************************************************************)
(* containerCreateAsEmpty called concurrently                              *)
(*                                                                         *)
(* Here pc, args, result and log are functions of the calling goroutine;   *)
(* the containers table is shared, and each call on the database is one    *)
(* step.  The storage and configure calls touch nothing shared and are one *)
(* step each.                                                              *)
(***************************************************************************)
Procs == 1..MaxProcs

\* The requests of the concurrent callers: two names, valid otherwise
ConcurrentRequests == {[BaseArgs EXCEPT !.Name = n] : n \in {<<"c2">>, <<"c3">>}}

InitConcurrent ==
    /\ host = DefaultHost
    /\ catalog = InitCatalog(0)
    /\ backups = {}
    /\ images = [remote |-> FALSE, associated |-> FALSE, accessed |-> FALSE]
    /\ flow = "CreateAsEmpty"
    /\ pc = [p \in Procs |-> "idle"]
    /\ args = [p \in Procs |-> NoArgs]
    /\ cargs = NoArgs
    /\ ret = "none"
    /\ idx = 0
    /\ csList = << >>
    /\ cfgc = << >>
    /\ ourStart = FALSE
    /\ deferStop = {}
    /\ result = [p \in Procs |-> "none"]
    /\ pre = [catalog |-> catalog, backups |-> backups, images |-> images, stateDir |-> FALSE]
    /\ log = [p \in Procs |-> << >>]
    /\ calls = 0
    /\ stateDir = FALSE
    /\ pool = ""
    /\ fixBackupFile = FALSE
    /\ vcfg = EmptyMap
    /\ vout = "none"

\* What no step of a concurrent call changes
shared == <<host, backups, images, flow, cargs, ret, idx, csList, cfgc, ourStart,
            deferStop, pre, calls, stateDir, pool, fixBackupFile, vcfg, vout>>

\* p logs the events es, and goes to label l with result r
Step(p, es, l, r) ==
    /\ log' = [log EXCEPT ![p] = log[p] \o es]
    /\ pc' = [pc EXCEPT ![p] = l]
    /\ result' = [result EXCEPT ![p] = r]

\* Line 606: goroutine p calls containerCreateAsEmpty
P_Call(p) ==
    /\ pc[p] = "idle"
    /\ \E a \in ConcurrentRequests : args' = [args EXCEPT ![p] = a]
    /\ pc' = [pc EXCEPT ![p] = "ci_insert"]
    /\ UNCHANGED <<catalog, result, log, shared>>

\* A caller that removes the record when its insert was refused
P_InsertRemoving(p) ==
    /\ pc[p] = "ci_insert"
    /\ LET a == WithDefaults(args[p]) IN
       IF a.Name \in DOMAIN catalog
       THEN /\ Step(p, <<Ev("ContainerCreate", a.Name, FALSE),
                         Ev("ContainerRemove", a.Name, TRUE)>>, "done", "already exists")
            /\ catalog' = ContainerRemove(catalog, a.Name, TRUE)
       ELSE /\ Step(p, <<Ev("ContainerCreate", a.Name, TRUE)>>, "ci_get", "none")
            /\ catalog' = ContainerInsert(catalog, a)
    /\ UNCHANGED <<args, shared>>

\* Lines 961-1042: the request is validated, then s.Cluster.ContainerCreate
\* inserts the record unless the name is taken; the insert is one step
P_Insert(p) ==
    /\ pc[p] = "ci_insert"
    /\ \E profilesOk \in BOOLEAN, ok \in BOOLEAN :
         LET a == WithDefaults(args[p])
             e == ValidationError(a, profilesOk)
         IN  IF e # ""
             THEN /\ ok
                  /\ Step(p, << >>, "done", e)
                  /\ UNCHANGED catalog
             ELSE IF a.Name \in DOMAIN catalog
             THEN /\ ok
                  /\ Step(p, <<Ev("ContainerCreate", a.Name, FALSE)>>, "done", "already exists")
                  /\ UNCHANGED catalog
             ELSE IF ok
             THEN /\ Step(p, <<Ev("ContainerCreate", a.Name, TRUE)>>, "ci_get", "none")
                  /\ catalog' = ContainerInsert(catalog, a)
             ELSE /\ Step(p, <<Ev("ContainerCreate", a.Name, FALSE)>>, "done",
                          "ContainerCreate: database error")
                  /\ UNCHANGED catalog
    /\ UNCHANGED <<args, shared>>

\* A call op of p on its container that is followed, when it fails, by the
\* removal rm of the record (ContainerRemove or Delete); undo is whether the
\* database carried the removal out
P_Try(p, at, op, rm, next) ==
    /\ pc[p] = at
    /\ \E ok \in BOOLEAN, undo \in BOOLEAN :
         LET n == args[p].Name IN
         IF ok
         THEN /\ undo
              /\ Step(p, <<Ev(op, n, TRUE)>>, next, IF next = "done" THEN "ok" ELSE "none")
              /\ UNCHANGED catalog
         ELSE /\ Step(p, <<Ev(op, n, FALSE), Ev(rm, n, undo)>>, "done", op)
              /\ catalog' = ContainerRemove(catalog, n, undo)
    /\ UNCHANGED <<args, shared>>

\* Lines 1049-1056: s.Cluster.ContainerGet
P_Get(p) == P_Try(p, "ci_get", "ContainerGet", "ContainerRemove", "ci_lxc")

\* Lines 1058-1065: containerLXCCreate
P_LXCCreate(p) == P_Try(p, "ci_lxc", "containerLXCCreate", "ContainerRemove", "empty_storage")

\* Lines 614-618: c.Storage().ContainerCreate(c)
P_Storage(p) ==
    P_Try(p, "empty_storage", "Storage.ContainerCreate", "ContainerRemove", "empty_configure")

\* Lines 620-627: containerConfigureInternal(c), and c.Delete() when it fails
P_Configure(p) ==
    P_Try(p, "empty_configure", "containerConfigureInternal", "Delete", "done")

NextConcurrent ==
    \E p \in Procs :
        \/ P_Call(p)
        \/ P_Insert(p)
        \/ P_Get(p)
        \/ P_LXCCreate(p)
        \/ P_Storage(p)
        \/ P_Configure(p)

SpecConcurrent == InitConcurrent /\ [][NextConcurrent]_vars

(***************************************************************************)
(* Properties                                                              *)
(***************************************************************************)
\* A call op on x with outcome ok is in the log
Called(op, x, ok) ==
    \E i \in DOMAIN log : log[i].op = op /\ log[i].on = x /\ log[i].ok = ok

\* A call op was made at all
Made(op) == \E i \in DOMAIN log : log[i].op = op

Succeeded == pc = "done" /\ result = "ok"

\* A container was created, its storage made by op and configure run on it
Completed(name, op) ==
    /\ Called("ContainerCreate", name, TRUE)
    /\ Called(op, name, TRUE)
    /\ Called("writeBackupFile", name, TRUE)
    /\ name \in DOMAIN catalog

\* C1: a create function that returns success has reserved its record, had
\* its storage call succeed and had its configure step succeed (the copy: on
\* the container and on every snapshot copy; the snapshot: the write of the
\* backup file; the backup: the write of the index file); no forward call of
\* a successful run has failed.
C1_NoPartialSuccess ==
    Succeeded =>
        /\ \A i \in DOMAIN log : ~log[i].ok => log[i].op = "RemoveAll"
        /\ flow = "CreateAsEmpty" => Completed(args.Name, "Storage.ContainerCreate")
        /\ flow = "CreateFromImage" => Completed(args.Name, "Storage.ContainerCreateFromImage")
        /\ flow = "CreateAsCopy" =>
              /\ Completed(args.a.Name, "Storage.ContainerCopy")
              /\ ~args.containerOnly =>
                    /\ Len(csList) = Len(Snapshots(pre.catalog))
                    /\ \A i \in DOMAIN csList :
                          /\ Called("ContainerCreate", csList[i], TRUE)
                          /\ Called("writeBackupFile", csList[i], TRUE)
        /\ flow = "CreateAsSnapshot" =>
              /\ Called("ContainerCreate", args.Name, TRUE)
              /\ Called("Storage.ContainerSnapshotCreate", args.Name, TRUE)
              /\ Called("writeBackupFile", SourceName, TRUE)
        /\ flow = "ContainerBackupCreate" =>
              /\ Called("ContainerBackupCreate", args.Name, TRUE)
              /\ Called("Storage.ContainerBackupCreate", args.Name, TRUE)
              /\ Called("createBackupIndexFile", args.Name, TRUE)

\* A copy of a container with two snapshots or more has returned success
C1_Witness ==
    /\ Succeeded
    /\ flow = "CreateAsCopy"
    /\ ~args.containerOnly
    /\ Len(csList) >= 2

\* C2: containerCreateAsEmpty on a name the database holds returns an error,
\* the "already exists" one once the request has passed the validation that
\* precedes the insert; at no point does it call the storage driver or
\* configure, or remove or delete anything, and the record of that name
\* stays as it was.
C2_ExistingName ==
    (flow = "CreateAsEmpty" /\ args.Name \in DOMAIN pre.catalog) =>
        /\ catalog = pre.catalog
        /\ \A i \in DOMAIN log : log[i] = Ev("ContainerCreate", args.Name, FALSE)
        /\ pc \in {"ci_validate", "ci_insert", "done"}
        /\ pc = "done" =>
              /\ result # "ok"
              /\ (ValidationError(WithDefaults(args), TRUE) = ""
                    /\ result # "profiles: database error")
                 => (result = "already exists" /\ log # << >>)

\* containerCreateAsEmpty was refused a name that was taken
C2_Witness ==
    /\ flow = "CreateAsEmpty"
    /\ pc = "done"
    /\ args.Name \in DOMAIN pre.catalog
    /\ result = "already exists"

\* The names containerCreateAsCopy gives the copies of the snapshots of the source
Siblings(T, snaps) == [i \in DOMAIN snaps |-> <<T[1]>> \o SubSeq(snaps[i], 2, Len(snaps[i]))]

Range(f) == {f[i] : i \in DOMAIN f}

\* C3: a copy with its snapshots that succeeds adds exactly N+1 records, the
\* container and one per snapshot of the source; when the storage copy fails
\* the function ends with a ContainerRemove of every snapshot copy and then
\* of the container, every record whose removal the database carried out is
\* gone, and with all of them carried out the table is what it was.
C3_CopyRecords ==
    (flow = "CreateAsCopy" /\ pc = "done" /\ ~args.containerOnly) =>
        LET T == args.a.Name
            sib == Siblings(T, Snapshots(pre.catalog))
            N == Len(sib)
            reserved == {T} \cup Range(sib)
        IN  /\ result = "ok" =>
                  /\ DOMAIN catalog = DOMAIN pre.catalog \cup reserved
                  /\ Cardinality(DOMAIN catalog) = Cardinality(DOMAIN pre.catalog) + N + 1
            /\ Called("Storage.ContainerCopy", T, FALSE) =>
                  LET k == CHOOSE i \in DOMAIN log : log[i].op = "Storage.ContainerCopy" IN
                  /\ csList = sib
                  /\ Len(log) = k + N + 1
                  /\ \A i \in 1..N : log[k + i].op = "ContainerRemove" /\ log[k + i].on = sib[i]
                  /\ log[k + N + 1].op = "ContainerRemove" /\ log[k + N + 1].on = T
                  /\ \A i \in (k + 1)..(k + N + 1) : log[i].ok => log[i].on \notin DOMAIN catalog
                  /\ (\A i \in (k + 1)..(k + N + 1) : log[i].ok) => catalog = pre.catalog

\* The storage copy of a container with two snapshots failed and all the
\* records of the call were removed
C3_Witness ==
    /\ flow = "CreateAsCopy"
    /\ pc = "done"
    /\ ~args.containerOnly
    /\ Len(csList) = 2
    /\ Called("Storage.ContainerCopy", args.a.Name, FALSE)
    /\ catalog = pre.catalog

\* C4: a stateful containerCreateAsSnapshot on a source that does not run
\* returns the error before anything else is done: no state directory, no
\* checkpoint dump, no record, no storage call.
C4_StatefulNotRunning ==
    (/\ flow = "CreateAsSnapshot"
     /\ pc = "done"
     /\ args.Stateful
     /\ Called("IsRunning", SourceName, FALSE)) =>
        /\ result = "The container isn't running"
        /\ log = <<Ev("IsRunning", SourceName, FALSE)>>
        /\ catalog = pre.catalog
        /\ stateDir = pre.stateDir

C4_Witness ==
    /\ flow = "CreateAsSnapshot"
    /\ pc = "done"
    /\ args.Stateful
    /\ result = "The container isn't running"

\* The storage call each function materializes its container with
StorageOp(f) ==
    CASE f = "CreateAsEmpty" -> "Storage.ContainerCreate"
      [] f = "CreateEmptySnapshot" -> "Storage.ContainerSnapshotCreateEmpty"
      [] f = "CreateFromImage" -> "Storage.ContainerCreateFromImage"
      [] f = "CreateAsSnapshot" -> "Storage.ContainerSnapshotCreate"
      [] OTHER -> "none"

\* C5: in containerCreateAsEmpty, containerCreateEmptySnapshot,
\* containerCreateFromImage and containerCreateAsSnapshot a failed storage
\* call is followed by the ContainerRemove of the reserved record and the
\* return; no other record is added or removed, and with the removal
\* carried out the table is what it was before the call.
C5_RoundTrip ==
    (/\ pc = "done"
     /\ StorageOp(flow) # "none"
     /\ Called(StorageOp(flow), args.Name, FALSE)) =>
        LET n == Len(log) IN
        /\ n >= 2
        /\ log[n - 1] = Ev(StorageOp(flow), args.Name, FALSE)
        /\ log[n].op = "ContainerRemove" /\ log[n].on = args.Name
        /\ DOMAIN catalog \ {args.Name} = DOMAIN pre.catalog
        /\ \A m \in DOMAIN pre.catalog : catalog[m] = pre.catalog[m]
        /\ log[n].ok => catalog = pre.catalog

C5_Witness ==
    /\ pc = "done"
    /\ flow = "CreateAsSnapshot"
    /\ Called("Storage.ContainerSnapshotCreate", args.Name, FALSE)
    /\ catalog = pre.catalog

\* The calls that only read
ReadOps == {"IsRunning"}

\* What a flow may have done before containerCreateInternal validates the
\* request: containerCreateFromImage has fetched the image from the node
\* that has it, the stateful containerCreateAsSnapshot has made the state
\* directory and run the dump
EarlyOps(f) ==
    CASE f = "CreateFromImage" -> {"imageImportFromNode", "ImageAssociateNode"}
      [] f = "CreateAsSnapshot" -> {"MkdirAll", "Migrate"}
      [] OTHER -> {}

\* The request of the flow
Request == IF flow = "CreateAsCopy" THEN args.a ELSE args

ValidationReturned ==
    /\ pc = "done"
    /\ result \in ValidationErrors
    /\ flow \in {"CreateAsEmpty", "CreateEmptySnapshot", "CreateFromImage",
                 "CreateAsCopy", "CreateAsSnapshot"}
    /\ ValidationError(WithDefaults(Request), TRUE) = result

\* C6 as first stated: when a request is refused by the validation nothing
\* has been written or called: no record, no image association, no
\* timestamp, no storage or runtime call, no state directory.
C6_Original ==
    ValidationReturned =>
        /\ \A i \in DOMAIN log : log[i].op \in ReadOps
        /\ catalog = pre.catalog
        /\ images = pre.images
        /\ stateDir = pre.stateDir

\* C6: when a request is refused by the validation no record has been
\* inserted, no timestamp of the image updated and no storage call made,
\* and the table of containers is what it was; the only calls made by then
\* are the import and node association of the image in
\* containerCreateFromImage, and the making of the state directory and the
\* dump in a stateful containerCreateAsSnapshot.
C6_ValidationFirst ==
    ValidationReturned =>
        /\ \A i \in DOMAIN log : log[i].op \in ReadOps \cup EarlyOps(flow)
        /\ catalog = pre.catalog
        /\ images.accessed = pre.images.accessed
        /\ ~Made("MkdirAll") => stateDir = pre.stateDir
        /\ ~Made("ImageAssociateNode") => images = pre.images
        /\ (flow = "CreateAsSnapshot" /\ ~args.Stateful) => log = << >>

\* A request with a config the validation refuses was returned by
\* containerCreateFromImage after the image was fetched from another node
C6_Witness ==
    /\ ValidationReturned
    /\ flow = "CreateFromImage"
    /\ Called("ImageAssociateNode", <<ImageHash>>, TRUE)

\* C7 as stated: when containerBackupCreate returns an error after it has
\* inserted the record of the backup, it has called ContainerBackupRemove
\* on it.
C7_BackupRemoved ==
    (/\ flow = "ContainerBackupCreate"
     /\ pc = "done"
     /\ result # "ok"
     /\ Called("ContainerBackupCreate", args.Name, TRUE)) =>
        Made("ContainerBackupRemove")

\* The storage stops that follow event i on the same container
StopsAfter(i) ==
    {j \in DOMAIN log : j > i /\ log[j].op = "StorageStop" /\ log[j].on = log[i].on}

\* C8 as stated: when a function returns, every StorageStart that returned
\* true is followed by exactly one StorageStop on the same container, and no
\* StorageStop is made without one.
C8_StopOwnStart ==
    pc = "done" =>
        /\ \A i \in DOMAIN log :
              (log[i].op = "StorageStart" /\ log[i].started) => Cardinality(StopsAfter(i)) = 1
        /\ \A j \in DOMAIN log :
              log[j].op = "StorageStop" =>
                  \E i \in 1..(j - 1) : /\ log[i].op = "StorageStart"
                                        /\ log[i].on = log[j].on
                                        /\ log[i].started

\* The pool of the root disk device of the default profile
DefaultPool == Get(ProfileDevices[GetRootDiskDeviceKey(ProfileDevices)], "pool")

\* C9: containerCreateFromBackup unpacks on the pool of the backup when it
\* exists and does not touch the backup file; with the pool missing and a
\* binary backup it returns an error with nothing unpacked; with the pool
\* missing and a backup that can be altered it unpacks on the pool of the
\* default profile only, and rewrites the pool of the backup file right
\* after a successful unpack and not otherwise.
C9_PoolResolution ==
    flow = "CreateFromBackup" =>
        LET exists == args.Pool \in host.pools
            target == IF exists THEN args.Pool ELSE DefaultPool
        IN  /\ \A i \in DOMAIN log :
                  log[i].op = "ContainerBackupLoad" =>
                      /\ i = 1
                      /\ log[i].on = <<target>>
                      /\ exists \/ ~args.HasBinaryFormat
            /\ exists => ~Made("fixBackupStoragePool") /\ ~fixBackupFile
            /\ (~exists /\ args.HasBinaryFormat) =>
                  /\ log = << >>
                  /\ ~fixBackupFile
                  /\ pc = "done" => result \in {"No such object", "storagePoolInit failed"}
            /\ fixBackupFile => pool = DefaultPool /\ pool # args.Pool
            /\ \A i \in DOMAIN log :
                  log[i].op = "fixBackupStoragePool" =>
                      /\ i = 2
                      /\ log[1] = Ev("ContainerBackupLoad", <<DefaultPool>>, TRUE)
                      /\ log[i].on = <<DefaultPool>>
            /\ pc = "done" =>
                  /\ Made("fixBackupStoragePool") <=>
                        (fixBackupFile /\ Called("ContainerBackupLoad", <<target>>, TRUE))
                  /\ result = "ok" => Called("ContainerBackupLoad", <<target>>, TRUE)
                  /\ (exists /\ result # "storagePoolInit failed") => Made("ContainerBackupLoad")

\* A backup of a missing pool was unpacked on the pool of the default
\* profile and its backup file rewritten
C9_Witness ==
    /\ flow = "CreateFromBackup"
    /\ pc = "done"
    /\ result = "ok"
    /\ args.Pool \notin host.pools
    /\ Called("fixBackupStoragePool", <<DefaultPool>>, TRUE)

\* C10 as first stated: a config with raw.seccomp and any key of
\* security.syscalls.* is rejected, whatever the values.
C10_Original ==
    (/\ vout # "none"
     /\ Has(vcfg, "raw.seccomp")
     /\ (SeccompKeys \ {"raw.seccomp"}) \cap DOMAIN vcfg # {}) =>
        vout = "rejected"

\* C10: a config with raw.seccomp is rejected when it also has the key
\* security.syscalls.whitelist or security.syscalls.blacklist (whatever the
\* value), or has security.syscalls.blacklist_default or
\* security.syscalls.blacklist_compat set to a true value; with only
\* blacklist_default and blacklist_compat keys of a false value beside it
\* the config is accepted, on a host that has a uid/gid allocation and is
\* not restricted to unprivileged containers.
C10_RawSeccomp ==
    vout # "none" =>
        /\ (/\ Has(vcfg, "raw.seccomp")
            /\ \/ Has(vcfg, "security.syscalls.whitelist")
               \/ Has(vcfg, "security.syscalls.blacklist")
               \/ IsTrue(Get(vcfg, "security.syscalls.blacklist_default"))
               \/ IsTrue(Get(vcfg, "security.syscalls.blacklist_compat")))
           => vout = "rejected"
        /\ (/\ Has(vcfg, "raw.seccomp")
            /\ ~Has(vcfg, "security.syscalls.whitelist")
            /\ ~Has(vcfg, "security.syscalls.blacklist")
            /\ ~IsTrue(Get(vcfg, "security.syscalls.blacklist_default"))
            /\ ~IsTrue(Get(vcfg, "security.syscalls.blacklist_compat")))
           => ((host.os.IdmapSet # "nil" /\ ~IsTrue(host.unprivOnly)) => vout = "accepted")

\* A config with raw.seccomp and security.syscalls.blacklist_default set to
\* true, and nothing else, was rejected
C10_Witness ==
    /\ vout = "rejected"
    /\ DOMAIN vcfg = {"raw.seccomp", "security.syscalls.blacklist_default"}
    /\ vcfg["security.syscalls.blacklist_default"] = "true"

\* Every device of the map has a type of the enumeration and only keys its
\* type allows
SchemaOk(devices) ==
    \A n \in DOMAIN devices :
        /\ Get(devices[n], "type") \in DeviceTypes
        /\ \A k \in DOMAIN devices[n] :
              k = "type" \/ (devices[n]["type"] # "none"
                               /\ containerValidDeviceConfigKey(devices[n]["type"], k))

\* C11 as first stated: containerValidDevices accepts a device map if and
\* only if every device has a type of the enumeration and only keys of the
\* key set of its type.
C11_Original ==
    (vout # "none" /\ vcfg # NilMap) => (vout = "accepted" <=> SchemaOk(vcfg))

\* C11: containerValidDevices accepts a device map only if every device has
\* a type of the enumeration and only keys of the key set of its type ("type"
\* always allowed, "none" allowing no other key): a device with a key outside
\* the set of its type, a type outside the enumeration or no type is always
\* rejected.  A nil map is accepted.
C11_DeviceSchema ==
    vout # "none" =>
        /\ (vcfg # NilMap /\ vout = "accepted") => SchemaOk(vcfg)
        /\ vcfg = NilMap => vout = "accepted"
        /\ vcfg # NilMap =>
              \A n \in DOMAIN vcfg :
                  (\/ ~Has(vcfg[n], "type")
                   \/ Get(vcfg[n], "type") \notin DeviceTypes
                   \/ Has(vcfg[n], "bogus")
                   \/ (Get(vcfg[n], "type") = "none" /\ DOMAIN vcfg[n] # {"type"})
                   \/ (Get(vcfg[n], "type") = "nic" /\ Has(vcfg[n], "path"))
                   \/ (Get(vcfg[n], "type") = "disk" /\ Has(vcfg[n], "nictype")))
                  => vout = "rejected"

\* A nic with the keys of its type was accepted, and so was a map of two devices
C11_Witness ==
    /\ vout = "accepted"
    /\ vcfg # NilMap
    /\ DOMAIN vcfg = {"d1", "d2"}
    /\ vcfg["d1"]["type"] = "nic"
    /\ DOMAIN vcfg["d1"] = {"type", "nictype", "parent"}

\* The disk devices of a map
Disks(devices) == {n \in DOMAIN devices : Get(devices[n], "type") = "disk"}

\* C12: a disk device with path "/" and a source is rejected, and one with
\* path "/" and no other key is accepted; a disk device with another path
\* and no source is rejected, and one with another path and a source and no
\* other key is accepted (when the map is not an expanded one, which must
\* hold a root disk, or holds the root disk beside it); a size is rejected
\* on every disk device whose path is not "/" and accepted on the one whose
\* path is "/".
C12_DiskSource ==
    (vout # "none" /\ vcfg # NilMap) =>
        /\ \A n \in Disks(vcfg) :
              LET m == vcfg[n] IN
              /\ (Get(m, "path") = "/" /\ Get(m, "source") # "") => vout = "rejected"
              /\ (Get(m, "path") \notin {"", "/"} /\ Get(m, "source") = "") => vout = "rejected"
              /\ (Get(m, "size") # "" /\ Get(m, "path") # "/") => vout = "rejected"
        /\ DOMAIN vcfg = {"d1"} =>
              /\ vcfg["d1"] = [type |-> "disk", path |-> "/"] => vout = "accepted"
              /\ vcfg["d1"] = [type |-> "disk", path |-> "/", size |-> "10GB"]
                    => vout = "accepted"
              /\ (vcfg["d1"] = [type |-> "disk", path |-> "/data", source |-> "/mnt/x"]
                    /\ ~args.expanded) => vout = "accepted"
        /\ (/\ DOMAIN vcfg = {"d1", "d2"}
            /\ vcfg["d1"] = [type |-> "disk", path |-> "/data", source |-> "/mnt/x"]
            /\ vcfg["d2"] = [type |-> "disk", path |-> "/"]) => vout = "accepted"

\* A disk on /data with a source was accepted in an expanded map, beside the root disk
C12_Witness ==
    /\ vout = "accepted"
    /\ args.expanded
    /\ DOMAIN vcfg = {"d1", "d2"}
    /\ vcfg["d1"] = [type |-> "disk", path |-> "/data", source |-> "/mnt/x"]
    /\ vcfg["d2"] = [type |-> "disk", path |-> "/"]

\* The raw.idmap of the config has an entry with host id 0
MapsRoot(config) ==
    LET rawMaps == parseRawIdmap(Get(config, "raw.idmap")) IN
    \E i \in DOMAIN rawMaps.maps : rawMaps.maps[i].Hostid = 0

\* C13: with LXD_UNPRIVILEGED_ONLY set to a true value containerValidConfig
\* rejects every config whose security.privileged is true and every config
\* whose raw.idmap has an entry with host id 0, and accepts a config of
\* these two keys whose raw.idmap entries all have another host id and whose
\* security.privileged is not true; with the variable unset or false a
\* config of these two keys is accepted whatever their values.  (Accepted:
\* on a host with a uid/gid allocation, which the validation asks for apart
\* from this policy.)
C13_UnprivilegedOnly ==
    vout # "none" =>
        /\ IsTrue(host.unprivOnly) =>
              /\ IsTrue(Get(vcfg, "security.privileged")) => vout = "rejected"
              /\ MapsRoot(vcfg) => vout = "rejected"
              /\ (/\ DOMAIN vcfg \subseteq {"raw.idmap", "security.privileged"}
                  /\ ~parseRawIdmap(Get(vcfg, "raw.idmap")).err
                  /\ ~MapsRoot(vcfg)
                  /\ ~IsTrue(Get(vcfg, "security.privileged"))
                  /\ host.os.IdmapSet # "nil") => vout = "accepted"
        /\ (/\ ~IsTrue(host.unprivOnly)
            /\ DOMAIN vcfg \subseteq {"raw.idmap", "security.privileged"}
            /\ host.os.IdmapSet # "nil") => vout = "accepted"

\* Under the policy a config was rejected for a raw.idmap whose second entry
\* maps host id 0
C13_Witness ==
    /\ vout = "rejected"
    /\ IsTrue(host.unprivOnly)
    /\ DOMAIN vcfg = {"raw.idmap"}
    /\ vcfg["raw.idmap"] = "uid 1000 5; gid 0 5"
    /\ host.os.IdmapSet # "nil"

\* The goroutines that inserted the record of name n and have not had it
\* removed since
Holders(n) ==
    {p \in Procs :
        \E i \in DOMAIN log[p] :
            /\ log[p][i] = Ev("ContainerCreate", n, TRUE)
            /\ \A j \in DOMAIN log[p] :
                  (j > i /\ log[p][j].op \in {"ContainerRemove", "Delete"}) => ~log[p][j].ok}

\* The goroutines whose insert of n succeeded
Reserved(n) ==
    {p \in Procs : \E i \in DOMAIN log[p] : log[p][i] = Ev("ContainerCreate", n, TRUE)}

ConcurrentNames == {a.Name : a \in ConcurrentRequests}

\* C14 as first stated: of the concurrent calls on one name at most one has
\* its insert succeed, and once all have returned every other one has
\* returned the already-exists error.
C14_Original ==
    \A n \in ConcurrentNames :
        /\ Cardinality(Reserved(n)) <= 1
        /\ (Reserved(n) # {} /\ \A p \in Procs : pc[p] = "done") =>
              \A p \in Procs \ Reserved(n) :
                  args[p].Name = n => result[p] = "already exists"

\* C14: of the concurrent calls on one name at most one holds the record at
\* any time, the table has the record exactly while one holds it, and at
\* most one returns success; a call whose insert finds the name taken
\* returns the already-exists error having made no other call, so it removes
\* nothing; a call removes a record only of its own name and only after its
\* own insert succeeded.  (A call may insert after an earlier holder failed
\* and removed its record.)
C14_Exclusive ==
    /\ \A n \in ConcurrentNames :
          /\ Cardinality(Holders(n)) <= 1
          /\ n \in DOMAIN catalog <=> Holders(n) # {}
          /\ Cardinality({p \in Procs : args[p].Name = n /\ result[p] = "ok"}) <= 1
    /\ \A p \in Procs :
          /\ result[p] = "already exists" =>
                log[p] = <<Ev("ContainerCreate", args[p].Name, FALSE)>>
          /\ result[p] = "ok" => p \in Holders(args[p].Name)
          /\ \A i \in DOMAIN log[p] :
                log[p][i].op \in {"ContainerRemove", "Delete"} =>
                    /\ log[p][i].on = args[p].Name
                    /\ \E j \in 1..(i - 1) : log[p][j] = Ev("ContainerCreate", args[p].Name, TRUE)

\* Two calls on one name have returned, one with success and the other with
\* the already-exists error, and the record is in the table
C14_Witness ==
    \E p, q \in Procs :
        /\ p # q
        /\ args[p].Name = args[q].Name
        /\ pc[p] = "done" /\ pc[q] = "done"
        /\ result[p] = "ok"
        /\ result[q] = "already exists"
        /\ args[p].Name \in DOMAIN catalog

\* The calls that undo or release: the removals of records, of the state
\* directory, and the deferred StorageStop
CompensationOps == {"ContainerRemove", "ContainerBackupRemove", "Delete", "RemoveAll",
                    "StorageStop"}

\* The errors a function returns when the call op has failed
ErrorsOf(op) ==
    CASE op = "ContainerCreate" -> {"already exists", "ContainerCreate: database error"}
      [] op = "ContainerBackupCreate" ->
             {"backup already exists", "ContainerBackupCreate: database error"}
      [] op = "ImageLastAccessUpdate" -> {"Error updating image last use date"}
      [] op = "IsRunning" -> {"The container isn't running"}
      [] OTHER -> {op, op \o " failed"}

\* The forward calls of the sequence of events es that failed
FailedIn(es) == {i \in DOMAIN es : ~es[i].ok /\ es[i].op \notin CompensationOps}

\* The events a step adds to the log
Added == IF Len(log') >= Len(log) THEN SubSeq(log', Len(log) + 1, Len(log')) ELSE << >>

\* C15: the error a creation function returns is the error of the first
\* call that failed: a function that has recorded no error has no failed
\* forward call behind it; the step in which the first forward call fails
\* records the error of that call, and only compensating calls follow it;
\* once an error is recorded no later step changes it or makes it a
\* success, whatever the compensating calls return, and no later step makes
\* a forward call.
C15_FirstError ==
    [][/\ result = "none" => FailedIn(log) = {}
       /\ (result = "none" /\ pc' # "idle") =>
             /\ FailedIn(Added) = {} => (result' = "ok" => pc' = "done")
             /\ FailedIn(Added) # {} =>
                   LET k == CHOOSE i \in FailedIn(Added) : \A j \in FailedIn(Added) : i <= j
                   IN  /\ result' \in ErrorsOf(Added[k].op)
                       /\ \A j \in DOMAIN Added : j > k => Added[j].op \in CompensationOps
       /\ (result # "none" /\ pc' # "idle") =>
             /\ result' = result
             /\ \A j \in DOMAIN Added : Added[j].op \in CompensationOps
      ]_vars

\* containerConfigureInternal failed on writeBackupFile, the c.Delete() of
\* the caller failed too, and the error returned is that of writeBackupFile
C15_Witness ==
    /\ pc = "done"
    /\ result = "writeBackupFile failed"
    /\ \E i \in DOMAIN log : log[i].op = "Delete" /\ ~log[i].ok
    /\ FailedIn(log) # {}

\* The names of the ContainerRemove calls of the log, in the order made
RECURSIVE RemovedNames(_)
RemovedNames(es) ==
    IF es = << >> THEN << >>
    ELSE (IF Head(es).op = "ContainerRemove" THEN <<Head(es).on>> ELSE << >>)
         \o RemovedNames(Tail(es))

Reverse(q) == [i \in 1..Len(q) |-> q[Len(q) + 1 - i]]

CopyFailed ==
    /\ flow = "CreateAsCopy"
    /\ pc = "done"
    /\ Called("Storage.ContainerCopy", args.a.Name, FALSE)

\* C16 as first stated: after a failed storage copy the records are removed
\* in the reverse of the order they were reserved in: sN, ..., s1, T.
C16_Original ==
    CopyFailed => RemovedNames(log) = Reverse(csList) \o <<args.a.Name>>

\* C16: after a failed storage copy containerCreateAsCopy removes the
\* snapshot copies in the order they were reserved in, s1, ..., sN, and then
\* the container T: every snapshot copy before the container, but not in
\* the reverse order among themselves.
C16_UnwindOrder ==
    CopyFailed =>
        /\ RemovedNames(log) = csList \o <<args.a.Name>>
        /\ csList = Siblings(args.a.Name,
                             IF args.containerOnly THEN << >> ELSE Snapshots(pre.catalog))

\* The storage copy failed with two snapshot copies reserved, and the
\* removal of the first was not carried out
C16_Witness ==
    /\ CopyFailed
    /\ Len(csList) = 2
    /\ Called("ContainerRemove", csList[1], FALSE)
    /\ Called("ContainerRemove", csList[2], TRUE)

\* C17: whenever containerCreateAsSnapshot returns an error after the record
\* of the new snapshot was inserted, a ContainerRemove or a Delete of that
\* record was issued before the return.
C17_SnapshotRecordRemoved ==
    (/\ flow = "CreateAsSnapshot"
     /\ pc = "done"
     /\ result # "ok"
     /\ Called("ContainerCreate", args.Name, TRUE))
    => \E i \in DOMAIN log :
          /\ log[i].op \in {"ContainerRemove", "Delete"}
          /\ log[i].on = args.Name

\* The call op on x succeeded before the i-th call of the log
OkBefore(i, op, x) ==
    \E j \in 1..(i - 1) : log[j].op = op /\ log[j].on = x /\ log[j].ok

TransferErrors == {"cluster.Connect failed", "imageImportFromNode failed",
                   "ImageAssociateNode failed"}

InConfigure == pc \in {"cfg_root", "cfg_start", "cfg_quota", "cfg_backup", "cfg_failed"}

\* C18: in containerCreateFromImage the record is inserted only after the
\* transfer of an image held by another node and its association with this
\* node succeeded; ImageLastAccessUpdate is called only after the insertion
\* succeeded, Storage.ContainerCreateFromImage only after the update
\* succeeded, and configure only after the storage call succeeded.  A failed
\* update or storage call is followed by ContainerRemove of the record, and a
\* failed transfer returns its error with no record inserted and no
\* association made.
C18_ImageOrder ==
    flow = "CreateFromImage" =>
        /\ \A i \in DOMAIN log :
             /\ (log[i].op = "ContainerCreate" /\ pre.images.remote /\ ~pre.images.associated) =>
                     /\ OkBefore(i, "imageImportFromNode", <<ImageHash>>)
                     /\ OkBefore(i, "ImageAssociateNode", <<ImageHash>>)
             /\ log[i].op = "ImageLastAccessUpdate" =>
                  OkBefore(i, "ContainerCreate", args.Name)
             /\ log[i].op = "Storage.ContainerCreateFromImage" =>
                  OkBefore(i, "ImageLastAccessUpdate", <<ImageHash>>)
             /\ log[i].op \in {"StorageStart", "writeBackupFile"} =>
                  OkBefore(i, "Storage.ContainerCreateFromImage", args.Name)
        /\ InConfigure => Called("Storage.ContainerCreateFromImage", args.Name, TRUE)
        /\ \A op \in {"ImageLastAccessUpdate", "Storage.ContainerCreateFromImage"} :
             (\E i \in DOMAIN log : log[i].op = op /\ ~log[i].ok) =>
                /\ pc = "done"
                /\ result \in ErrorsOf(op)
                /\ Len(log) >= 2
                /\ log[Len(log) - 1].op = op
                /\ log[Len(log)].op = "ContainerRemove"
                /\ log[Len(log)].on = args.Name
                /\ log[Len(log)].ok => catalog = pre.catalog
        /\ (pc = "done" /\ result \in TransferErrors) =>
                /\ ~Made("ContainerCreate")
                /\ catalog = pre.catalog
                /\ images = pre.images
                /\ ~images.associated

\* The image came from another node, the record was inserted, the update of
\* the last use date failed and the record was removed
C18_Witness ==
    /\ flow = "CreateFromImage"
    /\ pc = "done"
    /\ Called("ImageAssociateNode", <<ImageHash>>, TRUE)
    /\ Called("ImageLastAccessUpdate", <<ImageHash>>, FALSE)
    /\ Called("ContainerRemove", args.Name, TRUE)

\* containerCreateAsCopy returned because the creation of the copy of the
\* idx-th snapshot failed (lines 834-837)
SiblingFailed ==
    /\ flow = "CreateAsCopy"
    /\ pc = "done"
    /\ ~args.containerOnly
    /\ idx >= 1
    /\ ~Made("Storage.ContainerCopy")

CreateInternalErrors ==
    ValidationErrors \cup {"profiles: database error", "already exists",
                           "ContainerCreate: database error",
                           "ContainerGet: database error", "containerLXCCreate failed"}

\* C19: when the creation of the copy of the k-th snapshot fails,
\* containerCreateAsCopy returns that error at once: no Storage.ContainerCopy
\* and no configure call is made, nothing is removed for the container or for
\* the k-1 copies created before, and their records stay in the database.
C19_SiblingFailure ==
    SiblingFailed =>
        /\ result \in CreateInternalErrors
        /\ cargs.Name = Siblings(args.a.Name, Snapshots(pre.catalog))[idx]
        /\ csList = SubSeq(Siblings(args.a.Name, Snapshots(pre.catalog)), 1, idx - 1)
        /\ ~Made("StorageStart") /\ ~Made("writeBackupFile") /\ ~Made("Delete")
        /\ \A i \in DOMAIN log :
             log[i].op = "ContainerRemove" => (i = Len(log) /\ log[i].on = cargs.Name)
        /\ args.a.Name \in DOMAIN catalog
        /\ \A i \in DOMAIN csList : csList[i] \in DOMAIN catalog
        /\ \A n \in DOMAIN pre.catalog : n \in DOMAIN catalog

\* The creation of the copy of the second snapshot failed after its record
\* was inserted, and the container and the first copy are in the database
C19_Witness ==
    /\ SiblingFailed
    /\ idx = 2
    /\ Called("ContainerCreate", cargs.Name, TRUE)
    /\ Called("ContainerRemove", cargs.Name, TRUE)
    /\ csList[1] \in DOMAIN catalog

\* The containers c.StorageStart() was called on, in the order of the calls
RECURSIVE StartedNames(_)
StartedNames(es) ==
    IF es = << >> THEN << >>
    ELSE (IF Head(es).op = "StorageStart" THEN <<Head(es).on>> ELSE << >>)
         \o StartedNames(Tail(es))

ConfigureErrors == {"no root disk device", "StorageStart failed", "ConfigKeySet failed",
                    "ParseByteSizeString failed", "StorageEntitySetQuota failed",
                    "writeBackupFile failed"}

\* C20: after a successful Storage.ContainerCopy configure runs on the
\* container and then on the snapshot copies in the order they were created
\* in; the first configure that fails has that one container or snapshot copy
\* deleted and its error returned, no further configure is run, and every
\* other record the call created stays in the database.
C20_ConfigureOrder ==
    (flow = "CreateAsCopy" /\ Called("Storage.ContainerCopy", args.a.Name, TRUE)) =>
        LET order == <<args.a.Name>> \o csList
            st == StartedNames(log)
        IN  /\ Len(st) <= Len(order)
            /\ st = SubSeq(order, 1, Len(st))
            /\ InConfigure => (cfgc = order[idx + 1] /\ Len(st) \in {idx, idx + 1})
            /\ (pc = "done" /\ result # "ok") =>
                  /\ result \in ConfigureErrors
                  /\ cfgc = order[idx + 1]
                  /\ Len(st) <= idx + 1
                  /\ ~Made("ContainerRemove")
                  /\ \A i \in DOMAIN log :
                       log[i].op = "Delete" => (i = Len(log) /\ log[i].on = cfgc)
                  /\ log[Len(log)].op = "Delete"
                  /\ log[Len(log)].ok => cfgc \notin DOMAIN catalog
                  /\ \A j \in DOMAIN order : order[j] # cfgc => order[j] \in DOMAIN catalog
                  /\ \A n \in DOMAIN pre.catalog : n \in DOMAIN catalog
            /\ Succeeded => Len(st) = Len(order)

\* The configure of the first of two snapshot copies failed: it was deleted,
\* the second was not configured, and the container and the second copy are
\* in the database
C20_Witness ==
    /\ flow = "CreateAsCopy"
    /\ pc = "done"
    /\ result \in ConfigureErrors
    /\ Len(csList) = 2
    /\ cfgc = csList[1]
    /\ Called("Delete", csList[1], TRUE)
    /\ ~Called("StorageStart", csList[2], TRUE)
    /\ args.a.Name \in DOMAIN catalog
    /\ csList[2] \in DOMAIN catalog

\* The pool of the root disk device among the expanded devices of the
\* container the copy creates
TargetPool ==
    LET devs == ExpandedDevices(args.a.Devices)
    IN  Get(devs[GetRootDiskDeviceKey(devs)], "pool")

\* The snapshot copies the call created that are in the database, by their
\* place in csList
CopiesPresent ==
    IF flow = "CreateAsCopy" /\ ~args.containerOnly
    THEN {i \in DOMAIN csList : csList[i] \in DOMAIN catalog}
    ELSE {}

\* The local devices of the source snapshot the i-th copy was made of
SourceDevices(i) == pre.catalog[Snapshots(pre.catalog)[i]].devices

CallsOn(op, c) == {i \in DOMAIN log : log[i].op = op /\ log[i].on = c}

\* containerConfigureInternal found c on lvm and running
DeferredQuota(c) ==
    /\ \E i \in CallsOn("GetStorageTypeName", c) : log[i].is = "lvm"
    /\ \E i \in CallsOn("IsRunning", c) : log[i].is

\* C22: containerConfigureInternal sets volatile.apply_quota, and does not
\* call StorageEntitySetQuota, when the root disk device has a size, the
\* storage is lvm and the container is running; with a size (one that
\* parses) in any other case it calls StorageEntitySetQuota once and does not
\* set the key; without a size it does neither.  Either is done only after
\* c.StorageStart() succeeded.
C22_QuotaHandling ==
    /\ \A i \in DOMAIN log :
         log[i].op \in {"ConfigKeySet", "StorageEntitySetQuota", "GetStorageTypeName"} =>
            LET c == log[i].on IN
            /\ OkBefore(i, "StorageStart", c)
            /\ Cardinality(CallsOn("ConfigKeySet", c)) + Cardinality(CallsOn("StorageEntitySetQuota", c)) <= 1
            /\ CallsOn("ConfigKeySet", c) # {} => DeferredQuota(c)
            /\ CallsOn("StorageEntitySetQuota", c) # {} => ~DeferredQuota(c)
    /\ (pc \in {"cfg_backup", "cfg_failed"} /\ Called("StorageStart", cfgc, TRUE)) =>
         LET size == Get(RootDiskDevice(catalog, cfgc), "size")
             marker == Cardinality(CallsOn("ConfigKeySet", cfgc))
             quota == Cardinality(CallsOn("StorageEntitySetQuota", cfgc))
         IN  /\ size = "" =>
                  marker = 0 /\ quota = 0 /\ CallsOn("GetStorageTypeName", cfgc) = {}
             /\ (size # "" /\ DeferredQuota(cfgc)) => marker = 1 /\ quota = 0
             /\ (size # "" /\ ~DeferredQuota(cfgc) /\ size \notin UnparsableSizes) =>
                  marker = 0 /\ quota = 1

\* A container on lvm and running had volatile.apply_quota set, and its
\* backup file written, with no StorageEntitySetQuota
C22_Witness ==
    /\ Succeeded
    /\ DeferredQuota(cfgc)
    /\ Called("ConfigKeySet", cfgc, TRUE)
    /\ ~Made("StorageEntitySetQuota")

QuotaOps == {"StorageStart", "GetStorageTypeName", "IsRunning", "ConfigKeySet",
             "StorageEntitySetQuota"}

ConfigureSteps == {"cfg_root", "cfg_start", "cfg_quota", "cfg_backup"}

\* C23 as first stated: containerConfigureInternal never returns without
\* having called writeBackupFile.
C23_Original ==
    pc = "cfg_failed" => CallsOn("writeBackupFile", cfgc) # {}

\* C23: a containerConfigureInternal whose root device lookup,
\* c.StorageStart() and quota handling succeeded calls writeBackupFile before
\* it returns, whether a quota was set or not, and after every call of the
\* quota handling; only the deferred c.StorageStop() comes after it.  When
\* one of those earlier steps fails it returns that error and does not call
\* writeBackupFile.
C23_BackupFileLast ==
    [][/\ (pc \in ConfigureSteps /\ pc' \notin ConfigureSteps) =>
            IF pc = "cfg_backup"
            THEN /\ Added # << >>
                 /\ Added[1].op = "writeBackupFile" /\ Added[1].on = cfgc
                 /\ \A j \in DOMAIN Added : j > 1 => Added[j].op = "StorageStop"
                 /\ pc' = "cfg_failed" <=> ~Added[1].ok
            ELSE /\ pc' = "cfg_failed"
                 /\ result' \in ConfigureErrors \ {"writeBackupFile failed"}
                 /\ CallsOn("writeBackupFile", cfgc)' = {}
       /\ (pc \in ConfigureSteps /\ pc # "cfg_backup") => CallsOn("writeBackupFile", cfgc)' = {}
       /\ \A i \in DOMAIN log', j \in DOMAIN log' :
            (/\ log'[i].op = "writeBackupFile"
             /\ log'[j].on = log'[i].on
             /\ log'[j].op \in QuotaOps) => j < i
      ]_vars

\* A configure that set a quota wrote the backup file after it and succeeded
C23_Witness ==
    /\ Succeeded
    /\ \E i \in CallsOn("StorageEntitySetQuota", cfgc), j \in CallsOn("writeBackupFile", cfgc) :
          i < j /\ log[i].ok /\ log[j].ok

\* C24: containerCreateAsSnapshot sends the container-snapshot-created event,
\* with the name of the new snapshot, once in a call that succeeds, after the
\* record was inserted, the storage snapshot made and the backup file of the
\* source written; a call that returns an error sends none.
C24_SnapshotEvent ==
    LET sent == {i \in DOMAIN log : log[i].op = "eventSendLifecycle"} IN
    /\ flow # "CreateAsSnapshot" => sent = {}
    /\ flow = "CreateAsSnapshot" =>
         /\ Cardinality(sent) <= 1
         /\ \A i \in sent :
              /\ log[i].on = args.Name
              /\ OkBefore(i, "ContainerCreate", args.Name)
              /\ OkBefore(i, "Storage.ContainerSnapshotCreate", args.Name)
              /\ OkBefore(i, "writeBackupFile", SourceName)
              /\ pc = "done" /\ result = "ok"
         /\ Succeeded => Cardinality(sent) = 1

\* A stateful snapshot succeeded and its event was sent after the state
\* directory was removed
C24_Witness ==
    /\ flow = "CreateAsSnapshot"
    /\ Succeeded
    /\ args.Stateful
    /\ \E i \in DOMAIN log : log[i].op = "eventSendLifecycle" /\ OkBefore(i, "RemoveAll", SourceName)

\* C25: while containerCreateAsCopy runs and after it returned, every
\* snapshot copy it created that is in the database has the new container in
\* the database.  Stated for the runs in which every removal the function
\* asked for was carried out.
C25_ParentPresent ==
    (/\ flow = "CreateAsCopy"
     /\ \A i \in DOMAIN log : log[i].op \in {"ContainerRemove", "Delete"} => log[i].ok)
    => \A i \in CopiesPresent : args.a.Name \in DOMAIN catalog

\* C26: a stateful containerCreateAsSnapshot that made the state directory
\* and returned, with success or with an error, has called os.RemoveAll on
\* it before the return.
C26_StateDirRemoved ==
    (/\ flow = "CreateAsSnapshot"
     /\ pc = "done"
     /\ args.Stateful
     /\ Called("MkdirAll", SourceName, TRUE))
    => Made("RemoveAll")

====
